---- MODULE Spec2Model ----
(***************************************************************************)
(* bd-identity plugin (src/index.ts): the agent_self and bd_project tools  *)
(* over the external bead store.                                           *)
(*                                                                         *)
(* The store is a sequence of records; a record's id is its index.  Every  *)
(* tool invocation is one action: it runs the handler of src/index.ts      *)
(* against the store, with each store call (a `bd` process) succeeding or  *)
(* failing, and leaves the returned result in `call`.  Deliver hands the   *)
(* result to the caller and makes the tools available again.               *)
(*                                                                         *)
(* Text is modelled by structure: a session key is the sequence of its     *)
(* colon-separated segments, a task text is the sequence of its            *)
(* whitespace-separated tokens, a description is the sequence of the       *)
(* pieces it was built from.  Facts about the characters of the string     *)
(* constants used (digits, substrings, surrounding blanks) are tables.     *)
(***************************************************************************)
EXTENDS Integers, Sequences, FiniteSets, TLC

VARIABLES
    recs,    \* the bead store: Seq of records, id = index
    daily,   \* agentId -> Seq of entries appended to that agent's daily file
    call,    \* the invocation whose result is being returned, or Idle
    steps,   \* number of tool invocations so far
    files,   \* the other files of the workspace: path -> content
    procs    \* invocations running side by side: each one's position

vars == <<recs, daily, call, steps, files, procs>>

\* ------------------------------------------------------------------ bounds

\* tool invocations explored from an initial store
MaxSteps == 2

\* init invocations explored from an initial store
MaxInits == 2

\* invocations of the coordinator's commands explored from an initial store
MaxCoordSteps == 2

\* invocations explored when contexts without a sessionKey call
MaxKeylessSteps == 1

\* whoami invocations explored over the session keys
MaxLabelSteps == 1

\* task_create invocations explored from an initial store
MaxCreateSteps == 2

\* task_assign and task_list invocations explored from an initial store
MaxAssignSteps == 2

\* topic_create invocations explored from an initial store
MaxTopicSteps == 2

\* invocations of the commands that write memory files and index them
MaxWriteSteps == 2

\* invocations explored when an agent calls from two kinds of session
MaxAgreeSteps == 2

\* commands explored between two resolutions of a session
MaxStableSteps == 2

\* bd_project invocations of the bd_identity version explored
MaxGuardSteps == 2

\* ---------------------------------------------------------------- constants

IDENTITY_LABEL == "agent-identity"

\* absent optional value: ctx.agentId, params.id, params.text, parent, null
None == "<none>"
NoId == 0
NoKey == <<>>

\* ------------------------------------------------------------ string facts

\* /^\d{15,}$/ holds of these tokens
LongDigitTokens == {"1467935902931222589", "222222222222222"}

\* /^\d+$/ holds of these tokens
DigitTokens == LongDigitTokens \cup {"42", "11111111111111"}

\* l.startsWith("discord-")
DiscordDashTokens == {"discord-1467935902931222589"}

\* <<s, t>>: t is a proper substring of s
ProperSubstrings ==
    { <<"discord-1467935902931222589", "1467935902931222589">>,
      <<" agent-identity ", "agent-identity">>,
      <<" forge ", "forge">> }

\* strings whose lower-cased form contains "spec"
SpecTexts == {"spec: auth", "see specs/auth.md", "Spec review"}

\* String.prototype.includes
Includes(s, t) == s = t \/ <<s, t>> \in ProperSubstrings

\* String.prototype.trim
Trim(s) ==
    CASE s = " agent-identity " -> "agent-identity"
      [] s = " forge " -> "forge"
      [] OTHER -> s

IsLongDigits(s) == s \in LongDigitTokens

IsDigits(s) == s \in DigitTokens

\* ------------------------------------------------------------- sequences

Range(s) == { s[i] : i \in 1..Len(s) }

\* the subsequence of s at the positions satisfying keep
RECURSIVE SelectIdx(_, _, _)
SelectIdx(s, keep, i) ==
    IF i > Len(s) THEN <<>>
    ELSE (IF i \in keep THEN <<s[i]>> ELSE <<>>) \o SelectIdx(s, keep, i + 1)

Min(S) == CHOOSE x \in S : \A y \in S : x <= y

\* --------------------------------------------------------------- the store

\* bd create / bd q: a new open record; its id is returned
StoreCreate(rs, title, labels, parent, by) ==
    Append(rs, [ title |-> title, description |-> <<>>, labels |-> labels,
                 parent |-> parent, status |-> "open", comments |-> <<>>,
                 by |-> by ])

Exists(rs, id) == id \in 1..Len(rs)

StoreUpdateDescription(rs, id, d) == [rs EXCEPT ![id].description = d]

StoreUpdateParent(rs, id, p) == [rs EXCEPT ![id].parent = p]

StoreLabelAdd(rs, id, l) == [rs EXCEPT ![id].labels = @ \cup {l}]

StoreLabelRemove(rs, id, l) == [rs EXCEPT ![id].labels = @ \ {l}]

StoreCommentAdd(rs, id, t) == [rs EXCEPT ![id].comments = Append(@, t)]

StoreClose(rs, id) == [rs EXCEPT ![id].status = "closed"]

\* bd query "label=a AND label=b ...": ids of the records carrying every label
StoreQuery(rs, labels) == { i \in 1..Len(rs) : labels \subseteq rs[i].labels }

\* ------------------------------------------------------- calling contexts

\* the contexts the gateway supplies: sessionKey (its segments) and agentId
Callers ==
    { [sessionKey |-> <<"agent", "main", "main">>, agentId |-> "main"],
      [sessionKey |-> <<"agent", "forge", "main">>, agentId |-> "forge"] }

\* const agentId = ctx.agentId || "main"
AgentId(c) == IF c.agentId = None THEN "main" ELSE c.agentId

AgentIds == { AgentId(c) : c \in Callers }

\* --------------------------------------------------------- failure points

\* A store call is named by its position in the handler: <<"q", i>> the exact
\* query for label i and <<"s", i>> the substring query for label i of the
\* caller's findIdentityBead, <<"t", i>> and <<"u", i>> the same for
\* task_assign's target, <<"r", n>> the n-th read of the target record,
\* <<"w", n>> the n-th write, <<"x", 1>> the search-index update.
FailChoices(points) == {{}} \cup { {p} : p \in points } \cup {points}

\* ------------------------------------------------------- label derivation

\* variant: the loop runs upwards and pushes the first long-digit segment
SnowflakeOf_First(parts) ==
    LET ds == { i \in 1..Len(parts) : parts[i] = "discord" }
        cand == IF ds = {} THEN {}
                ELSE { i \in (Min(ds) + 1)..Len(parts) : IsLongDigits(parts[i]) }
    IN IF cand = {} THEN <<>>
       ELSE <<parts[Min(cand)]>>

\* the snowflake pushed by the loop: the last long-digit segment after
\* the first "discord" segment
SnowflakeOf(parts) ==
    LET ds == { i \in 1..Len(parts) : parts[i] = "discord" }
        cand == IF ds = {} THEN {}
                ELSE { i \in (Min(ds) + 1)..Len(parts) : IsLongDigits(parts[i]) }
    IN IF cand = {} THEN <<>>
       ELSE <<parts[CHOOSE i \in cand : \A j \in cand : j <= i]>>

\* variant: the agentId is pushed first
sessionKeyToLabels_AgentFirst(parts, agentId) ==
    (IF agentId = None THEN <<>> ELSE <<agentId>>)
    \o (IF Len(parts) >= 2
        THEN (IF parts[2] = "main" /\ Len(parts) >= 3 /\ parts[3] = "main"
              THEN <<"main-session">> ELSE <<>>)
             \o SnowflakeOf(parts)
        ELSE <<>>)

\* parts: sessionKey.split(":"); parts[1] and parts[2] of the source are
\* parts[2] and parts[3] here
sessionKeyToLabels(parts, agentId) ==
    LET structural ==
            IF Len(parts) >= 2
            THEN (IF parts[2] = "main" /\ Len(parts) >= 3 /\ parts[3] = "main"
                  THEN <<"main-session">> ELSE <<>>)
                 \o SnowflakeOf(parts)
            ELSE <<>>
    IN structural \o (IF agentId = None THEN <<>> ELSE <<agentId>>)

\* const labels = sessionKey ? sessionKeyToLabels(sessionKey, agentId) : []
Labels(c) ==
    IF c.sessionKey = NoKey THEN <<>>
    ELSE sessionKeyToLabels(c.sessionKey, AgentId(c))

\* the same line of bd_identity, where agentId = ctx.agentId has no default
IdentityLabels(c) ==
    IF c.sessionKey = NoKey THEN <<>>
    ELSE sessionKeyToLabels(c.sessionKey, c.agentId)

\* the labels the tool's factory derives for the context
LabelsFor(tool, c) ==
    IF tool = "agent_self" THEN Labels(c)
    ELSE IF tool = "bd_identity" THEN IdentityLabels(c)
    ELSE <<>>

\* ------------------------------------------------------ identity discovery

\* the beads a query "label=agent-identity AND label=l" returns
ExactHits(rs, l) == StoreQuery(rs, {IDENTITY_LABEL, l})

\* the identity beads one of whose labels contains l
SubstringHits(rs, l) ==
    { b \in StoreQuery(rs, {IDENTITY_LABEL}) :
        \E x \in rs[b].labels : Includes(x, l) }

\* variant: the substring search runs before the exact queries
FindIdentityBead_SubstringFirst(rs, searchLabels, F, qk, sk) ==
    LET n == Len(searchLabels)
        ex == { i \in 1..n : <<qk, i>> \notin F
                             /\ ExactHits(rs, searchLabels[i]) # {} }
        sb == { i \in 1..n : IsLongDigits(searchLabels[i])
                             /\ <<sk, i>> \notin F
                             /\ SubstringHits(rs, searchLabels[i]) # {} }
    IN IF sb # {} THEN SubstringHits(rs, searchLabels[Min(sb)])
       ELSE IF ex # {} THEN ExactHits(rs, searchLabels[Min(ex)])
       ELSE {NoId}

\* The ids findIdentityBead can return (NoId for null).  The store does not
\* say in which order a query lists its hits, so beads[0] is any of them.
\* A failed query is caught and the loop goes on.
FindIdentityBead(rs, searchLabels, F, qk, sk) ==
    LET n == Len(searchLabels)
        ex == { i \in 1..n : <<qk, i>> \notin F
                             /\ ExactHits(rs, searchLabels[i]) # {} }
        sb == { i \in 1..n : IsLongDigits(searchLabels[i])
                             /\ <<sk, i>> \notin F
                             /\ SubstringHits(rs, searchLabels[i]) # {} }
    IN IF ex # {} THEN ExactHits(rs, searchLabels[Min(ex)])
       ELSE IF sb # {} THEN SubstringHits(rs, searchLabels[Min(sb)])
       ELSE {NoId}

FindPoints(searchLabels, qk, sk) ==
    { <<qk, i>> : i \in 1..Len(searchLabels) }
    \cup { <<sk, i>> : i \in { j \in 1..Len(searchLabels) :
                                 IsLongDigits(searchLabels[j]) } }

\* createIdentityBead: [recs, id]; id is NoId when null is returned.  The
\* record stays created when the description update fails.
createIdentityBead(rs, label, F) ==
    IF <<"w", 1>> \in F THEN [recs |-> rs, id |-> NoId]
    ELSE LET made == StoreCreate(rs, <<[hash |-> FALSE, w |-> "Agent Identity:"],
                                       [hash |-> FALSE, w |-> label]>>,
                                 {IDENTITY_LABEL, label, "session-context"},
                                 NoId, "init")
             id == Len(made)
         IN IF <<"w", 2>> \in F THEN [recs |-> made, id |-> NoId]
            ELSE [recs |-> StoreUpdateDescription(made, id,
                               <<[k |-> "identity", v |-> label]>>),
                  id |-> id]

\* variant: the first derived label, whatever it is
CreateLabel_FirstLabel(labels, agentId) ==
    IF labels # <<>> THEN labels[1]
    ELSE IF agentId # None THEN agentId
    ELSE "unknown"

\* the creation label of init
CreateLabel(labels, agentId) ==
    LET dd == { i \in 1..Len(labels) : labels[i] \in DiscordDashTokens }
        nn == { i \in 1..Len(labels) : ~IsDigits(labels[i]) }
    IN IF dd # {} THEN labels[Min(dd)]
       ELSE IF nn # {} THEN labels[Min(nn)]
       ELSE IF agentId # None THEN agentId
       ELSE "unknown"

\* isIdentityBead: "true", "false", or "throw" when `bd label list` fails:
\* the catch block reads the undeclared name `label`, a ReferenceError
isIdentityBead(rs, beadId, failed) ==
    IF failed \/ ~Exists(rs, beadId) THEN "throw"
    ELSE IF \E l \in rs[beadId].labels : Includes(l, IDENTITY_LABEL) THEN "true"
    ELSE "false"

\* ------------------------------------------------------------------- text

\* a word of a text; hash: it is written #w
Tok(w) == [hash |-> FALSE, w |-> w]
Tag(w) == [hash |-> TRUE, w |-> w]

\* variant: /#([\w-]+)/g, a #word anywhere in the text
HashtagPositions_Anywhere(text) == { i \in 1..Len(text) : text[i].hash }

\* the matches of /\s+#([\w-]+)/g: the #words with white space before them
HashtagPositions(text) == { i \in 2..Len(text) : text[i].hash }

extraLabelsOf(text) ==
    LET tags == SelectIdx(text, HashtagPositions(text), 1)
    IN [i \in 1..Len(tags) |-> tags[i].w]

\* text.replace(/\s+#[\w-]+/g, "").trim()
TitleOf(text) == SelectIdx(text, (1..Len(text)) \ HashtagPositions(text), 1)

\* (title || "").toLowerCase().includes("spec")
TitleIncludesSpec(title) == \E i \in 1..Len(title) : title[i].w \in SpecTexts

\* a description is the sequence of its pieces: [k, v] with k "text" (v as
\* given), "spec" (the line "Spec: v") or "identity" (the generated text)
Piece(k, v) == [k |-> k, v |-> v]

DescIncludesSpec(d) ==
    \E i \in 1..Len(d) : d[i].k = "spec" \/ d[i].v \in SpecTexts

\* ---------------------------------------------------------------- results

\* what an invocation leaves: the store, the daily files, the result kind
\* ("ok" a textResult, "error" an errorResult, "throw" an exception leaving
\* execute) and the records whose content the result shows
Out(rs, dl, res, reads) == [recs |-> rs, daily |-> dl, res |-> res, reads |-> reads]

NoCaller == [sessionKey |-> NoKey, agentId |-> None]

\* what the result text says: which message, the id it names, a detail
Msg(kind, id, note) == [kind |-> kind, id |-> id, note |-> note]

NoMsg == Msg("none", NoId, None)

\* a result with its message
Say(out, kind, id, note) == [msg |-> Msg(kind, id, note)] @@ out

\* a result with the lines of a listing: <<id, owner tag>>
Listing(out, lines) == [shown |-> lines] @@ out

\* call: the tool and command, the gateway's context and the labels derived
\* from it, params.id and params.text, the store calls that failed, the
\* identity bead resolved for the caller, and the result
Idle == [tool |-> "none", cmd |-> "none", caller |-> NoCaller, id |-> NoId,
         text |-> None, failed |-> {}, bead |-> NoId, res |-> "none",
         reads |-> {}, labels |-> <<>>, msg |-> NoMsg, shown |-> {}]

\* appendToDaily(agentId, note)
appendToDaily(dl, agentId, entry) == [dl EXCEPT ![agentId] = Append(@, entry)]

\* beadData.labels of `bd show id --json`
LabelsOf(rs, id) == rs[id].labels

\* --------------------------------------------------- agent_self: identity

SelfWhoami(rs, dl, c, bead, id, text, F) == Out(rs, dl, "ok", {})

\* whoami of bd_identity reports the same fields
IdentityWhoami(rs, dl, c, bead, id, text, F) == Out(rs, dl, "ok", {})

SelfShow(rs, dl, c, bead, id, text, F) ==
    IF bead = NoId THEN Out(rs, dl, "error", {})
    ELSE IF <<"r", 1>> \in F THEN Out(rs, dl, "throw", {})
    ELSE Out(rs, dl, "ok", {bead})

SelfComment(rs, dl, c, bead, id, text, F) ==
    IF text = None THEN Out(rs, dl, "error", {})
    ELSE IF bead = NoId THEN Out(rs, dl, "error", {})
    ELSE IF <<"w", 1>> \in F THEN Out(rs, dl, "throw", {})
    ELSE Out(StoreCommentAdd(rs, bead, text), dl, "ok", {})

\* variant: edit the record the caller names, when it names one
SelfEdit_ByCallerId(rs, dl, c, bead, id, text, F) ==
    IF text = None THEN Out(rs, dl, "error", {})
    ELSE IF bead = NoId THEN Out(rs, dl, "error", {})
    ELSE IF <<"w", 1>> \in F THEN Out(rs, dl, "throw", {})
    ELSE Out(StoreUpdateDescription(rs, IF Exists(rs, id) THEN id ELSE bead,
                                    <<Piece("text", text)>>),
             dl, "ok", {})

SelfEdit(rs, dl, c, bead, id, text, F) ==
    IF text = None THEN Out(rs, dl, "error", {})
    ELSE IF bead = NoId THEN Out(rs, dl, "error", {})
    ELSE IF <<"w", 1>> \in F THEN Out(rs, dl, "throw", {})
    ELSE Out(StoreUpdateDescription(rs, bead, <<Piece("text", text)>>),
             dl, "ok", {})

\* the catch block of "comments" reads the undeclared name `label`
SelfComments(rs, dl, c, bead, id, text, F) ==
    IF bead = NoId THEN Out(rs, dl, "error", {})
    ELSE IF <<"r", 1>> \in F THEN Out(rs, dl, "throw", {})
    ELSE Out(rs, dl, "ok", {bead})

\* init, for the labels and the agentId the tool's factory derived:
\* "Identity bead already exists: <id>", "Failed to create identity bead."
\* or "Created identity bead: <id> (label: <createLabel>)"
InitWith(rs, dl, labels, agentId, bead, F) ==
    IF bead # NoId THEN Say(Out(rs, dl, "ok", {}), "exists", bead, None)
    ELSE LET label == CreateLabel(labels, agentId)
             made == createIdentityBead(rs, label, F)
         IN IF made.id = NoId
            THEN Say(Out(made.recs, dl, "error", {}), "create-failed", NoId, None)
            ELSE Say(Out(made.recs, dl, "ok", {}), "created", made.id, label)

SelfInit(rs, dl, c, bead, id, text, F) ==
    InitWith(rs, dl, Labels(c), AgentId(c), bead, F)

\* init of bd_identity: agentId is ctx.agentId as supplied
IdentityInit(rs, dl, c, bead, id, text, F) ==
    InitWith(rs, dl, IdentityLabels(c), c.agentId, bead, F)

\* ----------------------------------------------------- agent_self: topics

\* variant: no identity bead is asked for
TopicCreate_Unbound(rs, dl, c, bead, id, text, F) ==
    IF text = None THEN Out(rs, dl, "error", {})
    ELSE IF <<"w", 1>> \in F THEN Out(rs, dl, "error", {})
    ELSE Out(StoreCreate(rs, <<Tok(text)>>, {AgentId(c), "topic"}, bead,
                         "topic_create"), dl, "ok", {})

TopicCreate(rs, dl, c, bead, id, text, F) ==
    IF text = None THEN Out(rs, dl, "error", {})
    ELSE IF bead = NoId THEN Out(rs, dl, "error", {})
    ELSE IF <<"w", 1>> \in F THEN Out(rs, dl, "error", {})
    ELSE Out(StoreCreate(rs, <<Tok(text)>>, {AgentId(c), "topic"}, bead,
                         "topic_create"), dl, "ok", {})

\* variant: any topic passes, whoever's agentId it carries
TopicOwned_AnyTopic(rs, id, c) == "topic" \in rs[id].labels

\* labels.includes("topic") && labels.includes(agentId) on the labels read
TopicOwned(rs, id, c) ==
    "topic" \in LabelsOf(rs, id) /\ AgentId(c) \in LabelsOf(rs, id)

TopicComment(rs, dl, c, bead, id, text, F) ==
    IF id = NoId \/ text = None THEN Out(rs, dl, "error", {})
    ELSE IF <<"r", 1>> \in F \/ ~Exists(rs, id) THEN Out(rs, dl, "error", {})
    ELSE IF ~TopicOwned(rs, id, c) THEN Out(rs, dl, "error", {})
    ELSE IF <<"w", 1>> \in F THEN Out(rs, dl, "throw", {})
    ELSE Out(StoreCommentAdd(rs, id, text), dl, "ok", {})

\* a failed `bd comments` runs the inner catch, whose ReferenceError the
\* outer catch turns into "Cannot find topic"
TopicShow(rs, dl, c, bead, id, text, F) ==
    IF id = NoId THEN Out(rs, dl, "error", {})
    ELSE IF <<"r", 1>> \in F \/ ~Exists(rs, id) THEN Out(rs, dl, "error", {})
    ELSE IF ~TopicOwned(rs, id, c) THEN Out(rs, dl, "error", {})
    ELSE IF <<"r", 2>> \in F THEN Out(rs, dl, "error", {})
    ELSE Out(rs, dl, "ok", {id})

\* the note is appended, then indexSingleDocument runs inside the try (its
\* catch block reads the undeclared `label`, so a failed index update ends
\* the command with "Cannot verify topic"), then the record is closed
TopicClose(rs, dl, c, bead, id, text, F) ==
    IF id = NoId THEN Out(rs, dl, "error", {})
    ELSE IF bead = NoId THEN Out(rs, dl, "error", {})
    ELSE IF <<"r", 1>> \in F \/ ~Exists(rs, id) THEN Out(rs, dl, "error", {})
    ELSE IF ~TopicOwned(rs, id, c) THEN Out(rs, dl, "error", {})
    ELSE LET noted == appendToDaily(dl, AgentId(c), [k |-> "topic", id |-> id])
         IN IF <<"x", 1>> \in F THEN Out(rs, noted, "error", {})
            ELSE IF <<"w", 1>> \in F THEN Out(rs, noted, "throw", {})
            ELSE Out(StoreClose(rs, id), noted, "ok", {})

\* ------------------------------------------------------ agent_self: tasks

\* "task", the hashtags, and "backlog" unless #ready or #backlog is given
TaskLabels(text) ==
    LET extra == Range(extraLabelsOf(text))
    IN {"task"} \cup extra
       \cup (IF "ready" \notin extra /\ "backlog" \notin extra
             THEN {"backlog"} ELSE {})

\* hasReady ? "ready" : (hasTrivial ? "backlog (trivial)" : "backlog")
TaskStatus(text) ==
    LET extra == Range(extraLabelsOf(text))
    IN IF "ready" \in extra THEN "ready"
       ELSE IF "trivial" \in extra THEN "backlog (trivial)"
       ELSE "backlog"

TaskCreate(rs, dl, c, bead, id, text, F) ==
    IF text = <<>> THEN Out(rs, dl, "error", {})
    ELSE IF <<"w", 1>> \in F THEN Out(rs, dl, "error", {})
    ELSE Say(Out(StoreCreate(rs,
                             IF HashtagPositions(text) # {} THEN TitleOf(text)
                             ELSE text,
                             TaskLabels(text), NoId, "task_create"),
                 dl, "ok", {}),
             "created", Len(rs) + 1, TaskStatus(text))

\* const agentIds = ["main", "forge", "scout", "courier", "watchdog", "bosun"]
agentIds == {"main", "forge", "scout", "courier", "watchdog", "bosun"}

\* getOwner: the first of the record's labels that is in agentIds.  The
\* store decides the order of a record's labels; `first` is the agent label
\* it lists before the others.
getOwner(labels, first) ==
    LET agentLabels == labels \cap agentIds
    IN IF agentLabels = {} THEN None
       ELSE IF first \in agentLabels THEN first
       ELSE CHOOSE l \in agentLabels : TRUE

\* (text || "").trim().toLowerCase()
ModeOf(text) ==
    CASE text = None -> ""
      [] text = " Ready " -> "ready"
      [] OTHER -> text

\* mode.match(/^label:([\w,-]+)$/): the labels listed, none when the mode
\* does not match
LabelMatch(mode) ==
    CASE mode = "label:urgent" -> {"urgent"}
      [] mode = "label:urgent,forge" -> {"urgent", "forge"}
      [] OTHER -> {}

filterModeOf(mode) ==
    IF LabelMatch(mode) # {} THEN "label"
    ELSE IF mode \in {"ready", "backlog", "all", "unassigned"} THEN mode
    ELSE "mine"

OpenOnes(rs, S) == { i \in S : rs[i].status = "open" }

\* the beads the query of the mode returns
TaskListQuery(rs, bead, mode) ==
    LET fm == filterModeOf(mode)
    IN IF fm = "label"
       THEN OpenOnes(rs, StoreQuery(rs, LabelMatch(mode) \cup {"task"}))
       ELSE IF fm \in {"ready", "backlog"}
       THEN OpenOnes(rs, StoreQuery(rs, {"task", fm}))
       ELSE IF fm \in {"all", "unassigned"}
       THEN OpenOnes(rs, StoreQuery(rs, {"task"}))
       ELSE { i \in OpenOnes(rs, StoreQuery(rs, {"task"})) : rs[i].parent = bead }

\* task_list: a failed query is answered with "No open tasks."
TaskList(rs, dl, c, bead, id, text, F, first) ==
    IF bead = NoId THEN Out(rs, dl, "error", {})
    ELSE IF <<"r", 1>> \in F
    THEN Say(Out(rs, dl, "ok", {}), "empty", NoId, "No open tasks.")
    ELSE LET fm == filterModeOf(ModeOf(text))
             beads == TaskListQuery(rs, bead, ModeOf(text))
             filtered ==
                 IF fm = "all"
                 THEN { i \in beads : "backlog" \notin rs[i].labels }
                 ELSE IF fm = "unassigned"
                 THEN { i \in beads : /\ getOwner(rs[i].labels, first) = None
                                      /\ "backlog" \notin rs[i].labels }
                 ELSE beads
         IN IF filtered = {}
            THEN Say(Out(rs, dl, "ok", {}), "empty", NoId, fm)
            ELSE Listing(Out(rs, dl, "ok", filtered),
                         { <<i, IF fm = "mine" THEN None
                                ELSE getOwner(rs[i].labels, first)>> :
                             i \in filtered })

\* variant: the record's labels are not looked at
TaskAssign_AnyRecord(rs, dl, c, bead, id, text, F, target) ==
    IF id = NoId \/ text = None THEN Out(rs, dl, "error", {})
    ELSE IF target = NoId THEN Out(rs, dl, "error", {})
    ELSE IF <<"r", 1>> \in F \/ ~Exists(rs, id) THEN Out(rs, dl, "error", {})
    ELSE IF <<"w", 1>> \in F THEN Out(rs, dl, "throw", {})
    ELSE LET moved == StoreUpdateParent(rs, id, target)
         IN IF <<"w", 2>> \in F THEN Out(moved, dl, "throw", {})
            ELSE Out(StoreLabelAdd(moved, id, Trim(text)), dl, "ok", {})

\* target: the identity bead found for [text.trim()]
TaskAssign(rs, dl, c, bead, id, text, F, target) ==
    IF id = NoId \/ text = None THEN Out(rs, dl, "error", {})
    ELSE IF target = NoId THEN Out(rs, dl, "error", {})
    ELSE IF <<"r", 1>> \in F \/ ~Exists(rs, id) THEN Out(rs, dl, "error", {})
    ELSE IF "task" \notin LabelsOf(rs, id) THEN Out(rs, dl, "error", {})
    ELSE IF <<"w", 1>> \in F THEN Out(rs, dl, "throw", {})
    ELSE LET moved == StoreUpdateParent(rs, id, target)
         IN IF <<"w", 2>> \in F THEN Out(moved, dl, "throw", {})
            ELSE Out(StoreLabelAdd(moved, id, Trim(text)), dl, "ok", {})

\* variant: ready is added and backlog stays
PromoteLabels_AddOnly(rs, id, F) ==
    IF <<"w", 3>> \in F THEN [recs |-> rs, res |-> "error"]
    ELSE [recs |-> StoreLabelAdd(rs, id, "ready"), res |-> "ok"]

\* the label transition of task_promote: remove backlog, then add ready;
\* a failed call leaves what the calls before it did
PromoteLabels(rs, id, F) ==
    IF <<"w", 2>> \in F THEN [recs |-> rs, res |-> "error"]
    ELSE LET removed == StoreLabelRemove(rs, id, "backlog")
         IN IF <<"w", 3>> \in F THEN [recs |-> removed, res |-> "error"]
            ELSE [recs |-> StoreLabelAdd(removed, id, "ready"), res |-> "ok"]

\* variant: no spec reference is asked for
TaskPromote_Ungated(rs, dl, c, bead, id, text, F) ==
    IF id = NoId THEN Out(rs, dl, "error", {})
    ELSE IF AgentId(c) # "main" THEN Out(rs, dl, "error", {})
    ELSE IF <<"r", 1>> \in F \/ ~Exists(rs, id) THEN Out(rs, dl, "error", {})
    ELSE IF "task" \notin LabelsOf(rs, id) THEN Out(rs, dl, "error", {})
    ELSE IF "backlog" \notin LabelsOf(rs, id) THEN Out(rs, dl, "error", {})
    ELSE IF "ready" \in LabelsOf(rs, id) THEN Out(rs, dl, "error", {})
    ELSE LET done == PromoteLabels(rs, id, F)
         IN Out(done.recs, dl, done.res, {})

TaskPromote(rs, dl, c, bead, id, text, F) ==
    IF id = NoId THEN Out(rs, dl, "error", {})
    ELSE IF AgentId(c) # "main" THEN Out(rs, dl, "error", {})
    ELSE IF <<"r", 1>> \in F \/ ~Exists(rs, id) THEN Out(rs, dl, "error", {})
    ELSE IF "task" \notin LabelsOf(rs, id) THEN Out(rs, dl, "error", {})
    ELSE IF "backlog" \notin LabelsOf(rs, id) THEN Out(rs, dl, "error", {})
    ELSE IF "ready" \in LabelsOf(rs, id) THEN Out(rs, dl, "error", {})
    ELSE IF "trivial" \in LabelsOf(rs, id)
         THEN LET done == PromoteLabels(rs, id, F)
              IN Out(done.recs, dl, done.res, {})
    ELSE IF ~(DescIncludesSpec(rs[id].description)
              \/ TitleIncludesSpec(rs[id].title)) /\ text = None
         THEN Out(rs, dl, "error", {})
    ELSE IF text # None /\ <<"w", 1>> \in F THEN Out(rs, dl, "error", {})
    ELSE LET described ==
                 IF text = None THEN rs
                 ELSE StoreUpdateDescription(rs, id,
                          Append(rs[id].description, Piece("spec", text)))
             done == PromoteLabels(described, id, F)
         IN Out(done.recs, dl, done.res, {})

\* variant: any assigned record passes, whoever its parent is
TaskOwned_AnyParent(rs, id, bead) == rs[id].parent # NoId

\* beadData.parent !== beadId
TaskOwned(rs, id, bead) == rs[id].parent = bead

TaskComment(rs, dl, c, bead, id, text, F) ==
    IF id = NoId \/ text = None THEN Out(rs, dl, "error", {})
    ELSE IF bead = NoId THEN Out(rs, dl, "error", {})
    ELSE IF <<"r", 1>> \in F \/ ~Exists(rs, id) THEN Out(rs, dl, "error", {})
    ELSE IF ~TaskOwned(rs, id, bead) THEN Out(rs, dl, "error", {})
    ELSE IF <<"w", 1>> \in F THEN Out(rs, dl, "throw", {})
    ELSE Out(StoreCommentAdd(rs, id, text), dl, "ok", {})

TaskShow(rs, dl, c, bead, id, text, F) ==
    IF id = NoId THEN Out(rs, dl, "error", {})
    ELSE IF bead = NoId THEN Out(rs, dl, "error", {})
    ELSE IF <<"r", 1>> \in F \/ ~Exists(rs, id) THEN Out(rs, dl, "error", {})
    ELSE IF ~TaskOwned(rs, id, bead) THEN Out(rs, dl, "error", {})
    ELSE IF <<"r", 2>> \in F THEN Out(rs, dl, "error", {})
    ELSE Out(rs, dl, "ok", {id})

TaskClose(rs, dl, c, bead, id, text, F) ==
    IF id = NoId THEN Out(rs, dl, "error", {})
    ELSE IF bead = NoId THEN Out(rs, dl, "error", {})
    ELSE IF <<"r", 1>> \in F \/ ~Exists(rs, id) THEN Out(rs, dl, "error", {})
    ELSE IF ~TaskOwned(rs, id, bead) THEN Out(rs, dl, "error", {})
    ELSE LET noted == appendToDaily(dl, AgentId(c), [k |-> "task", id |-> id])
         IN IF <<"x", 1>> \in F THEN Out(rs, noted, "error", {})
            ELSE IF <<"w", 1>> \in F THEN Out(rs, noted, "throw", {})
            ELSE Out(StoreClose(rs, id), noted, "ok", {})

\* -------------------------------------------------------------- bd_project

writeCommands == {"comment", "edit", "close", "label"}

\* variant: the guard looks at close only
ProjectGuard_CloseOnly(rs, command, id, F) ==
    IF command = "close" /\ id # NoId
    THEN LET v == isIdentityBead(rs, id, <<"r", 1>> \in F)
         IN IF v = "throw" THEN "throw"
            ELSE IF v = "true" THEN "refuse" ELSE "pass"
    ELSE "pass"

\* the guard before the switch: "pass", "refuse" (errorResult) or "throw"
ProjectGuard(rs, command, id, F) ==
    IF command \in writeCommands /\ id # NoId
    THEN LET v == isIdentityBead(rs, id, <<"r", 1>> \in F)
         IN IF v = "throw" THEN "throw"
            ELSE IF v = "true" THEN "refuse" ELSE "pass"
    ELSE "pass"

ProjectShow(rs, dl, id, text, F) ==
    IF id = NoId THEN Out(rs, dl, "error", {})
    ELSE IF <<"r", 2>> \in F \/ ~Exists(rs, id) THEN Out(rs, dl, "throw", {})
    ELSE Out(rs, dl, "ok", {id})

\* bd list --limit 20, bd ready: the open records
ProjectList(rs, dl, id, text, F) ==
    IF <<"r", 2>> \in F THEN Out(rs, dl, "throw", {})
    ELSE Out(rs, dl, "ok", { i \in 1..Len(rs) : rs[i].status = "open" })

\* text: the labels of the expression "label=a AND label=b"
ProjectQuery(rs, dl, id, text, F) ==
    IF text = {} THEN Out(rs, dl, "error", {})
    ELSE IF <<"r", 2>> \in F THEN Out(rs, dl, "throw", {})
    ELSE Out(rs, dl, "ok", StoreQuery(rs, text))

ProjectComment(rs, dl, id, text, F) ==
    IF id = NoId \/ text = None THEN Out(rs, dl, "error", {})
    ELSE IF <<"w", 1>> \in F THEN Out(rs, dl, "throw", {})
    ELSE Out(StoreCommentAdd(rs, id, text), dl, "ok", {})

ProjectEdit(rs, dl, id, text, F) ==
    IF id = NoId \/ text = None THEN Out(rs, dl, "error", {})
    ELSE IF <<"w", 1>> \in F THEN Out(rs, dl, "throw", {})
    ELSE Out(StoreUpdateDescription(rs, id, <<Piece("text", text)>>),
             dl, "ok", {})

ProjectCreate(rs, dl, id, text, F) ==
    IF text = None THEN Out(rs, dl, "error", {})
    ELSE IF <<"w", 1>> \in F THEN Out(rs, dl, "throw", {})
    ELSE Out(StoreCreate(rs, <<Tok(text)>>, {}, NoId, "bd_project"),
             dl, "ok", {})

ProjectClose(rs, dl, id, text, F) ==
    IF id = NoId THEN Out(rs, dl, "error", {})
    ELSE LET v == isIdentityBead(rs, id, <<"r", 2>> \in F)
         IN IF v = "throw" THEN Out(rs, dl, "throw", {})
            ELSE IF v = "true" THEN Out(rs, dl, "error", {})
            ELSE IF <<"w", 1>> \in F THEN Out(rs, dl, "throw", {})
            ELSE Out(StoreClose(rs, id), dl, "ok", {})

\* variant: the reserved label is compared without trimming
ProjectLabel_Untrimmed(rs, dl, id, text, F) ==
    IF id = NoId \/ text = None THEN Out(rs, dl, "error", {})
    ELSE IF text = IDENTITY_LABEL THEN Out(rs, dl, "error", {})
    ELSE IF <<"w", 1>> \in F THEN Out(rs, dl, "throw", {})
    ELSE Out(StoreLabelAdd(rs, id, Trim(text)), dl, "ok", {})

ProjectLabel(rs, dl, id, text, F) ==
    IF id = NoId \/ text = None THEN Out(rs, dl, "error", {})
    ELSE IF Trim(text) = IDENTITY_LABEL THEN Out(rs, dl, "error", {})
    ELSE IF <<"w", 1>> \in F THEN Out(rs, dl, "throw", {})
    ELSE Out(StoreLabelAdd(rs, id, text), dl, "ok", {})

ProjectSync(rs, dl, id, text, F) ==
    IF <<"w", 1>> \in F THEN Out(rs, dl, "throw", {})
    ELSE Out(rs, dl, "ok", {})

\* ------------------------------------------------------------------ files

\* join(WORKSPACE, "MEMORY.md"), join(MEMORY_ROOT, agentId, "MEMORY.md"),
\* join(SPECS_DIR, name): a path is the sequence of its segments
SystemMemoryPath == <<"MEMORY.md">>

LtmPath(agentId) == <<"memory", agentId, "MEMORY.md">>

SoulPath(agentId) == <<"memory", agentId, "SOUL.md">>

\* name.replace(/\.md$/i, "")
SafeName(name) == IF name = "auth.md" THEN "auth" ELSE name

\* /^[a-zA-Z0-9_-]+$/ holds of these strings
PlainNames == {"auth", "main", "forge"}

\* params.name of the specs tool
SpecNames == {"auth", "auth.md", "../auth"}

SpecPath(safeName) == <<"specs", safeName, ".md">>

FilePaths ==
    {SystemMemoryPath} \cup { LtmPath(a) : a \in AgentIds }
    \cup { SoulPath(a) : a \in AgentIds }
    \cup { SpecPath(SafeName(n)) : n \in SpecNames }

\* a result that leaves the files as fs
WithFiles(out, fs) == [files |-> fs] @@ out

\* memory_write: the text is appended to today's file, then
\* indexSingleDocument runs; when an index update fails, its catch block
\* reads the undeclared name `label` and the ReferenceError leaves execute
MemoryWrite(rs, dl, c, bead, id, text, F) ==
    IF text = None THEN Out(rs, dl, "error", {})
    ELSE LET noted == appendToDaily(dl, AgentId(c), [k |-> "memory", id |-> NoId])
         IN IF <<"x", 1>> \in F THEN Out(rs, noted, "throw", {})
            ELSE Out(rs, noted, "ok", {})

\* soul_write: SOUL.md is written, then the argument `ltmPath` of
\* indexFileDocument, a name no declaration of this block or of an
\* enclosing one binds, raises a ReferenceError
SoulWrite(rs, dl, c, bead, id, text, F) ==
    IF text = None THEN Out(rs, dl, "error", {})
    ELSE WithFiles(Out(rs, dl, "throw", {}),
                   [files EXCEPT ![SoulPath(AgentId(c))] = text])

\* ltm_write: the agent's own MEMORY.md
LtmWrite(rs, dl, c, bead, id, text, F) ==
    IF text = None THEN Out(rs, dl, "error", {})
    ELSE WithFiles(Out(rs, dl, "ok", {}),
                   [files EXCEPT ![LtmPath(AgentId(c))] = text])

\* system_memory_write: main only; indexFileDocument swallows its failures
SystemMemoryWrite(rs, dl, c, bead, id, text, F) ==
    IF AgentId(c) # "main" THEN Out(rs, dl, "error", {})
    ELSE IF text = None THEN Out(rs, dl, "error", {})
    ELSE WithFiles(Out(rs, dl, "ok", {}),
                   [files EXCEPT ![SystemMemoryPath] = text])

\* agent_ltm_read: main only; the content of the target agent's MEMORY.md
AgentLtmRead(rs, dl, c, bead, id, text, F) ==
    IF AgentId(c) # "main" THEN Out(rs, dl, "error", {})
    ELSE IF text = None THEN Out(rs, dl, "error", {})
    ELSE IF Trim(text) \notin PlainNames THEN Out(rs, dl, "error", {})
    ELSE IF files[LtmPath(Trim(text))] = None
         THEN Say(Out(rs, dl, "ok", {}), "no-file", NoId, None)
    ELSE Say(Out(rs, dl, "ok", {}), "content", NoId, files[LtmPath(Trim(text))])

\* specs read: the name is not validated
SpecsRead(rs, dl, c, name, text) ==
    IF files[SpecPath(SafeName(name))] = None
    THEN Out(rs, dl, "error", {})
    ELSE Say(Out(rs, dl, "ok", {}), "content", NoId,
             files[SpecPath(SafeName(name))])

\* specs write: main only
SpecsWrite(rs, dl, c, name, text) ==
    IF AgentId(c) # "main" THEN Out(rs, dl, "error", {})
    ELSE IF text = None THEN Out(rs, dl, "error", {})
    ELSE IF SafeName(name) \notin PlainNames THEN Out(rs, dl, "error", {})
    ELSE WithFiles(Out(rs, dl, "ok", {}),
                   [files EXCEPT ![SpecPath(SafeName(name))] = text])

\* ------------------------------------------------- side-by-side invocations

Procs == {1, 2}

\* an invocation's position (idle; resolved: findIdentityBead has returned;
\* checked: the ownership check has passed; done), its context, the bead
\* resolved for it, the store calls that failed, its result, its command
\* with params.id and params.text, and the description it has read
IdleProc == [pc |-> "idle", caller |-> NoCaller, bead |-> NoId, failed |-> {},
             res |-> "none", msg |-> NoMsg, cmd |-> "none", id |-> NoId,
             text |-> None, seen |-> <<>>]

\* ----------------------------------------------------------------- inputs

\* params.id: absent, a record of the store, or an id the store does not hold
Ids == 0..(Len(recs) + 1)

\* params.text of the commands that take free text
Texts == {None, "note"}

\* params.text of task_create
TaskTexts ==
    { <<>>,
      <<Tok("Fix"), Tok("bug"), Tag("urgent")>>,
      <<Tok("tidy"), Tag("trivial")>>,
      <<Tok("ship"), Tag("ready"), Tag("backlog")>>,
      <<Tok("me"), Tag("agent-identity")>> }

\* params.text of task_assign: the target agent id
AssignTexts == {None, "forge", " forge ", "main", "agent-identity"}

\* params.text of task_promote: a spec reference
PromoteTexts == {None, "auth"}

\* params.text of bd_project label
LabelTexts == {None, "agent-identity", " agent-identity ", "ready", "forge"}

\* params.text of bd_project query, as the labels it asks for
QueryTexts == {{}, {IDENTITY_LABEL}, {"task"}}

\* ---------------------------------------------------------------- actions

Apply(tool, cmd, c, id, text, F, bead, out) ==
    /\ recs' = out.recs
    /\ daily' = out.daily
    /\ steps' = steps + 1
    /\ files' = IF "files" \in DOMAIN out THEN out.files ELSE files
    /\ procs' = procs
    /\ call' = [tool |-> tool, cmd |-> cmd, caller |-> c, id |-> id,
                text |-> text, failed |-> F, bead |-> bead, res |-> out.res,
                reads |-> out.reads, labels |-> LabelsFor(tool, c),
                msg |-> IF "msg" \in DOMAIN out THEN out.msg ELSE NoMsg,
                shown |-> IF "shown" \in DOMAIN out THEN out.shown ELSE {}]

\* variant: the guard never fires
NoSession_Never(c) == FALSE

\* if (!sessionKey) return errorResult("No session context. ...")
NoSession(c) == c.sessionKey = NoKey

\* agent_self execute for the contexts `callers`, at most `limit` invocations:
\* the sessionKey guard, findIdentityBead(labels), then the command's case
\* one invocation of `tool` (agent_self or bd_identity) from context c
Invoke(tool, c, cmd, Handler(_, _, _, _, _, _, _), id, text, points) ==
    IF NoSession(c)
    THEN Apply(tool, cmd, c, id, text, {}, NoId,
               Say(Out(recs, daily, "error", {}), "no-session", NoId, None))
    ELSE \E F \in FailChoices(FindPoints(LabelsFor(tool, c), "q", "s") \cup points) :
           \E bead \in FindIdentityBead(recs, LabelsFor(tool, c), F, "q", "s") :
             Apply(tool, cmd, c, id, text, F, bead,
                   Handler(recs, daily, c, bead, id, text, F))

AgentSelfBy(callers, limit, cmd, Handler(_, _, _, _, _, _, _), ids, texts, points) ==
    /\ call.tool = "none"
    /\ steps < limit
    /\ \E c \in callers, id \in ids, text \in texts :
         Invoke("agent_self", c, cmd, Handler, id, text, points)

AgentSelf(cmd, Handler(_, _, _, _, _, _, _), ids, texts, points) ==
    AgentSelfBy(Callers, MaxSteps, cmd, Handler, ids, texts, points)

Whoami == AgentSelf("whoami", SelfWhoami, {NoId}, {None}, {})

Show == AgentSelf("show", SelfShow, Ids, {None}, {<<"r", 1>>})

Comment == AgentSelf("comment", SelfComment, Ids, Texts, {<<"w", 1>>})

Edit == AgentSelf("edit", SelfEdit, Ids, Texts, {<<"w", 1>>})

Comments == AgentSelf("comments", SelfComments, Ids, {None}, {<<"r", 1>>})

InitCmd == AgentSelf("init", SelfInit, {NoId}, {None}, {<<"w", 1>>, <<"w", 2>>})

TopicCreateCmd == AgentSelf("topic_create", TopicCreate, {NoId}, Texts, {<<"w", 1>>})

TopicCommentCmd ==
    AgentSelf("topic_comment", TopicComment, Ids, Texts, {<<"r", 1>>, <<"w", 1>>})

TopicShowCmd ==
    AgentSelf("topic_show", TopicShow, Ids, {None}, {<<"r", 1>>, <<"r", 2>>})

TopicCloseCmd ==
    AgentSelf("topic_close", TopicClose, Ids, {None},
              {<<"r", 1>>, <<"x", 1>>, <<"w", 1>>})

TaskCreateCmd == AgentSelf("task_create", TaskCreate, {NoId}, TaskTexts, {<<"w", 1>>})

\* task_assign looks up a second identity bead, the target's
TaskAssignOver(callers, limit, texts) ==
    /\ call.tool = "none"
    /\ steps < limit
    /\ \E c \in callers, id \in Ids, text \in texts :
         IF NoSession(c)
         THEN Apply("agent_self", "task_assign", c, id, text, {}, NoId,
                    Say(Out(recs, daily, "error", {}), "no-session", NoId, None))
         ELSE
         LET tl == IF text = None THEN <<>> ELSE <<Trim(text)>>
         IN \E F \in FailChoices(FindPoints(Labels(c), "q", "s")
                                 \cup FindPoints(tl, "t", "u")
                                 \cup {<<"r", 1>>, <<"w", 1>>, <<"w", 2>>}) :
              \E bead \in FindIdentityBead(recs, Labels(c), F, "q", "s"),
                 target \in FindIdentityBead(recs, tl, F, "t", "u") :
                Apply("agent_self", "task_assign", c, id, text, F, bead,
                      TaskAssign(recs, daily, c, bead, id, text, F, target))

TaskAssignBy(callers, limit) == TaskAssignOver(callers, limit, AssignTexts)

TaskAssignCmd == TaskAssignBy(Callers, MaxSteps)

TaskPromoteCmd ==
    AgentSelf("task_promote", TaskPromote, Ids, PromoteTexts,
              {<<"r", 1>>, <<"w", 1>>, <<"w", 2>>, <<"w", 3>>})

TaskCommentCmd ==
    AgentSelf("task_comment", TaskComment, Ids, Texts, {<<"r", 1>>, <<"w", 1>>})

TaskShowCmd ==
    AgentSelf("task_show", TaskShow, Ids, {None}, {<<"r", 1>>, <<"r", 2>>})

TaskCloseCmd ==
    AgentSelf("task_close", TaskClose, Ids, {None},
              {<<"r", 1>>, <<"x", 1>>, <<"w", 1>>})

\* bd_project execute: the writeCommands guard, then the command's case
Project(cmd, Handler(_, _, _, _, _), ids, texts, points) ==
    /\ call.tool = "none"
    /\ steps < MaxSteps
    /\ \E c \in Callers, id \in ids, text \in texts :
         \E F \in FailChoices(points \cup (IF cmd \in writeCommands
                                           THEN {<<"r", 1>>} ELSE {})) :
           LET g == ProjectGuard(recs, cmd, id, F)
           IN Apply("bd_project", cmd, c, id, text, F, NoId,
                    IF g = "throw" THEN Out(recs, daily, "throw", {})
                    ELSE IF g = "refuse" THEN Out(recs, daily, "error", {})
                    ELSE Handler(recs, daily, id, text, F))

PShow == Project("show", ProjectShow, Ids, {None}, {<<"r", 2>>})

PList == Project("list", ProjectList, {NoId}, {None}, {<<"r", 2>>})

PReady == Project("ready", ProjectList, {NoId}, {None}, {<<"r", 2>>})

PQuery == Project("query", ProjectQuery, {NoId}, QueryTexts, {<<"r", 2>>})

PComment == Project("comment", ProjectComment, Ids, Texts, {<<"w", 1>>})

PEdit == Project("edit", ProjectEdit, Ids, Texts, {<<"w", 1>>})

PCreate == Project("create", ProjectCreate, {NoId}, Texts, {<<"w", 1>>})

PClose == Project("close", ProjectClose, Ids, {None}, {<<"r", 2>>, <<"w", 1>>})

PLabel == Project("label", ProjectLabel, Ids, LabelTexts, {<<"w", 1>>})

PSync == Project("sync", ProjectSync, {NoId}, {None}, {<<"w", 1>>})

\* the result reaches the caller
Deliver ==
    /\ call.tool # "none"
    /\ call' = Idle
    /\ UNCHANGED <<recs, daily, steps, files, procs>>

\* ------------------------------------------------------- the specification

\* the store before any command, and the store in which both agents have
\* run init
Seeded ==
    createIdentityBead(createIdentityBead(<<>>, "main-session", {}).recs,
                       "forge", {}).recs

\* the seeded store after main has created a topic and a task and has
\* assigned the task to forge
Working ==
    LET main == CHOOSE c \in Callers : AgentId(c) = "main"
        a == TopicCreate(Seeded, <<>>, main, 1, NoId, "note", {}).recs
        b == TaskCreate(a, <<>>, main, 1, NoId,
                        <<Tok("Fix"), Tok("bug"), Tag("urgent")>>, {}).recs
    IN TaskAssign(b, <<>>, main, 1, 4, "forge", {}, 2).recs

\* no file written yet
NoFiles == [p \in FilePaths |-> None]

\* no invocation running side by side
NoProcs == [p \in Procs |-> IdleProc]

Init ==
    /\ recs \in {<<>>, Seeded, Working}
    /\ daily = [a \in AgentIds |-> <<>>]
    /\ call = Idle
    /\ steps = 0
    /\ files = NoFiles
    /\ procs = NoProcs

Next ==
    \/ Whoami \/ Show \/ Comment \/ Edit \/ Comments \/ InitCmd
    \/ TopicCreateCmd \/ TopicCommentCmd \/ TopicShowCmd \/ TopicCloseCmd
    \/ TaskCreateCmd \/ TaskAssignCmd \/ TaskPromoteCmd
    \/ TaskCommentCmd \/ TaskShowCmd \/ TaskCloseCmd
    \/ PShow \/ PList \/ PReady \/ PQuery \/ PComment \/ PEdit \/ PCreate
    \/ PClose \/ PLabel \/ PSync
    \/ Deliver

Spec == Init /\ [][Next]_vars

\* ------------------------------------------------- init, called repeatedly

\* contexts of the main session, of discord channel sessions with and
\* without a supplied agentId, with a numeric agentId, with the agentId
\* discord and with an agentId starting with discord-, and of a one-segment
\* key
InitCallers ==
    { [sessionKey |-> <<"agent", "discord", "discord", "channel",
                        "1467935902931222589">>, agentId |-> "discord"],
      [sessionKey |-> <<"agent", "relay", "discord", "channel",
                        "222222222222222">>,
       agentId |-> "discord-1467935902931222589"] } \cup
    { [sessionKey |-> <<"agent", "main", "main">>, agentId |-> "main"],
      [sessionKey |-> <<"agent", "forge", "discord", "channel",
                        "1467935902931222589">>, agentId |-> "forge"],
      [sessionKey |-> <<"agent", "main", "discord", "channel",
                        "1467935902931222589">>, agentId |-> None],
      [sessionKey |-> <<"agent", "bot", "discord", "channel",
                        "1467935902931222589">>, agentId |-> "42"],
      [sessionKey |-> <<"main">>, agentId |-> None] }

\* a store whose only identity bead was created for a discord- label
Channelled == createIdentityBead(<<>>, "discord-1467935902931222589", {}).recs

\* init from an idle gateway
InitCall(tool, Handler(_, _, _, _, _, _, _)) ==
    /\ call.tool = "none"
    /\ steps < MaxInits
    /\ \E c \in InitCallers :
         Invoke(tool, c, "init", Handler, NoId, None, {<<"w", 1>>, <<"w", 2>>})

\* init called again by the context whose init has just returned
InitAgain(tool, Handler(_, _, _, _, _, _, _)) ==
    /\ call.tool = tool
    /\ call.cmd = "init"
    /\ steps < MaxInits
    /\ Invoke(tool, call.caller, "init", Handler, NoId, None,
              {<<"w", 1>>, <<"w", 2>>})

SelfInitCall == InitCall("agent_self", SelfInit)

SelfInitAgain == InitAgain("agent_self", SelfInit)

IdentityInitCall == InitCall("bd_identity", IdentityInit)

IdentityInitAgain == InitAgain("bd_identity", IdentityInit)

InitInit ==
    /\ recs \in {<<>>, Seeded, Channelled}
    /\ daily = [a \in AgentIds |-> <<>>]
    /\ call = Idle
    /\ steps = 0
    /\ files = NoFiles
    /\ procs = NoProcs

NextInit ==
    \/ SelfInitCall \/ SelfInitAgain
    \/ IdentityInitCall \/ IdentityInitAgain
    \/ Deliver

SpecInit == InitInit /\ [][NextInit]_vars

\* ------------------------------------------- the coordinator's commands

\* the contexts of main and forge and one for which the gateway supplies a
\* sessionKey and no agentId
CoordCallers ==
    Callers \cup {[sessionKey |-> <<"agent", "scout", "main">>, agentId |-> None]}

\* params.text of agent_ltm_read: the target agent id
LtmTargets == {None, "forge", " forge ", "../forge"}

CoordPromoteCmd ==
    AgentSelfBy(CoordCallers, MaxCoordSteps, "task_promote", TaskPromote, Ids,
                PromoteTexts, {<<"r", 1>>, <<"w", 1>>, <<"w", 2>>, <<"w", 3>>})

LtmWriteCmd ==
    AgentSelfBy(CoordCallers, MaxCoordSteps, "ltm_write", LtmWrite, {NoId},
                Texts, {})

SystemMemoryWriteCmd ==
    AgentSelfBy(CoordCallers, MaxCoordSteps, "system_memory_write",
                SystemMemoryWrite, {NoId}, Texts, {<<"x", 1>>})

AgentLtmReadCmd ==
    AgentSelfBy(CoordCallers, MaxCoordSteps, "agent_ltm_read", AgentLtmRead,
                {NoId}, LtmTargets, {})

\* the specs tool: no session guard, no identity lookup; the name travels
\* in call.id's place as text does in call.text
SpecsCmd(cmd, Handler(_, _, _, _, _)) ==
    /\ call.tool = "none"
    /\ steps < MaxCoordSteps
    /\ \E c \in CoordCallers, name \in SpecNames, text \in Texts :
         Apply("specs", cmd, c, NoId, <<name, text>>, {}, NoId,
               Handler(recs, daily, c, name, text))

SpecsReadCmd == SpecsCmd("read", SpecsRead)

SpecsWriteCmd == SpecsCmd("write", SpecsWrite)

InitCoord ==
    /\ recs \in {Seeded, Working}
    /\ daily = [a \in AgentIds |-> <<>>]
    /\ call = Idle
    /\ steps = 0
    /\ files = NoFiles
    /\ procs = NoProcs

NextCoord ==
    \/ CoordPromoteCmd \/ LtmWriteCmd \/ SystemMemoryWriteCmd \/ AgentLtmReadCmd
    \/ SpecsReadCmd \/ SpecsWriteCmd
    \/ Deliver

SpecCoord == InitCoord /\ [][NextCoord]_vars

\* ------------------------------------------ contexts without a sessionKey

\* contexts for which the gateway supplies no sessionKey, with and without
\* an agentId, and main's context
KeylessCallers ==
    { [sessionKey |-> NoKey, agentId |-> a] : a \in {None, "main", "forge"} }
    \cup { c \in Callers : AgentId(c) = "main" }

\* the commands of agent_self
AgentSelfCommands(callers, limit) ==
    \/ AgentSelfBy(callers, limit, "whoami", SelfWhoami, {NoId}, {None}, {})
    \/ AgentSelfBy(callers, limit, "show", SelfShow, Ids, {None}, {<<"r", 1>>})
    \/ AgentSelfBy(callers, limit, "comment", SelfComment, Ids, Texts,
                   {<<"w", 1>>})
    \/ AgentSelfBy(callers, limit, "edit", SelfEdit, Ids, Texts, {<<"w", 1>>})
    \/ AgentSelfBy(callers, limit, "comments", SelfComments, Ids, {None},
                   {<<"r", 1>>})
    \/ AgentSelfBy(callers, limit, "init", SelfInit, {NoId}, {None},
                   {<<"w", 1>>, <<"w", 2>>})
    \/ AgentSelfBy(callers, limit, "ltm_write", LtmWrite, {NoId}, Texts, {})
    \/ AgentSelfBy(callers, limit, "system_memory_write", SystemMemoryWrite,
                   {NoId}, Texts, {<<"x", 1>>})
    \/ AgentSelfBy(callers, limit, "agent_ltm_read", AgentLtmRead, {NoId},
                   LtmTargets, {})
    \/ AgentSelfBy(callers, limit, "topic_create", TopicCreate, {NoId}, Texts,
                   {<<"w", 1>>})
    \/ AgentSelfBy(callers, limit, "topic_comment", TopicComment, Ids, Texts,
                   {<<"r", 1>>, <<"w", 1>>})
    \/ AgentSelfBy(callers, limit, "topic_show", TopicShow, Ids, {None},
                   {<<"r", 1>>, <<"r", 2>>})
    \/ AgentSelfBy(callers, limit, "topic_close", TopicClose, Ids, {None},
                   {<<"r", 1>>, <<"x", 1>>, <<"w", 1>>})
    \/ AgentSelfBy(callers, limit, "task_create", TaskCreate, {NoId}, TaskTexts,
                   {<<"w", 1>>})
    \/ TaskAssignBy(callers, limit)
    \/ AgentSelfBy(callers, limit, "task_promote", TaskPromote, Ids,
                   PromoteTexts, {<<"r", 1>>, <<"w", 1>>, <<"w", 2>>, <<"w", 3>>})
    \/ AgentSelfBy(callers, limit, "task_comment", TaskComment, Ids, Texts,
                   {<<"r", 1>>, <<"w", 1>>})
    \/ AgentSelfBy(callers, limit, "task_show", TaskShow, Ids, {None},
                   {<<"r", 1>>, <<"r", 2>>})
    \/ AgentSelfBy(callers, limit, "task_close", TaskClose, Ids, {None},
                   {<<"r", 1>>, <<"x", 1>>, <<"w", 1>>})

\* bd_identity init from the same contexts
IdentityInitKeyless ==
    /\ call.tool = "none"
    /\ steps < MaxKeylessSteps
    /\ \E c \in KeylessCallers :
         Invoke("bd_identity", c, "init", IdentityInit, NoId, None,
                {<<"w", 1>>, <<"w", 2>>})

NextKeyless ==
    \/ AgentSelfCommands(KeylessCallers, MaxKeylessSteps)
    \/ IdentityInitKeyless
    \/ Deliver

SpecKeyless == InitCoord /\ [][NextKeyless]_vars

\* ------------------------------------------- whoami over the session keys

\* session keys, split at ":": one and two segments; the main session with
\* and without further segments; main in other positions; discord keys with
\* one and two long-digit segments, with a long-digit segment before
\* discord, with two discord segments, with digits too short; a long-digit
\* segment without discord
SessionKeys ==
    { <<"main">>,
      <<"agent", "main">>,
      <<"discord", "1467935902931222589">>,
      <<"agent", "main", "main">>,
      <<"agent", "main", "main", "thread", "42">>,
      <<"agent", "forge", "main">>,
      <<"agent", "main", "forge">>,
      <<"main", "main", "agent">>,
      <<"agent", "main", "main", "1467935902931222589">>,
      <<"agent", "forge", "discord", "channel", "1467935902931222589">>,
      <<"agent", "forge", "discord", "channel", "11111111111111">>,
      <<"agent", "main", "main", "discord", "1467935902931222589",
        "222222222222222">>,
      <<"agent", "forge", "discord", "channel", "222222222222222", "thread",
        "1467935902931222589">>,
      <<"agent", "forge", "1467935902931222589", "discord", "channel", "42">>,
      <<"agent", "forge", "222222222222222", "discord",
        "1467935902931222589", "discord", "42">> }

LabelCallers ==
    { [sessionKey |-> k, agentId |-> a] :
        k \in SessionKeys, a \in {None, "main", "forge"} }

SelfWhoamiOver ==
    AgentSelfBy(LabelCallers, MaxLabelSteps, "whoami", SelfWhoami, {NoId},
                {None}, {})

IdentityWhoamiOver ==
    /\ call.tool = "none"
    /\ steps < MaxLabelSteps
    /\ \E c \in LabelCallers :
         Invoke("bd_identity", c, "whoami", IdentityWhoami, NoId, None, {})

\* a store with an identity bead created for a discord- label, one for
\* forge and one for the main session
Mixed ==
    createIdentityBead(
        createIdentityBead(Channelled, "forge", {}).recs, "main-session", {}).recs

InitLabels ==
    /\ recs \in {<<>>, Seeded, Channelled, Mixed}
    /\ daily = [a \in AgentIds |-> <<>>]
    /\ call = Idle
    /\ steps = 0
    /\ files = NoFiles
    /\ procs = NoProcs

NextLabels == SelfWhoamiOver \/ IdentityWhoamiOver \/ Deliver

SpecLabels == InitLabels /\ [][NextLabels]_vars

\* ----------------------------------------------------------- task_create

\* params.text of task_create: no text; no hashtag; hashtags appended; a
\* hashtag between words; a hashtag as the first characters of the text
CreateTexts ==
    TaskTexts \cup
    { <<Tok("Fix"), Tok("bug")>>,
      <<Tok("Fix"), Tag("trivial"), Tag("ready")>>,
      <<Tok("tidy"), Tag("trivial"), Tag("backlog")>>,
      <<Tok("Fix"), Tag("urgent"), Tok("now")>>,
      <<Tag("urgent"), Tok("Fix"), Tok("bug")>>,
      <<Tag("ready"), Tok("ship")>>,
      <<Tag("trivial"), Tok("tidy"), Tag("urgent")>> }

TaskCreateOver ==
    AgentSelfBy(Callers, MaxCreateSteps, "task_create", TaskCreate, {NoId},
                CreateTexts, {<<"w", 1>>})

InitCreate ==
    /\ recs \in {<<>>, Seeded}
    /\ daily = [a \in AgentIds |-> <<>>]
    /\ call = Idle
    /\ steps = 0
    /\ files = NoFiles
    /\ procs = NoProcs

NextCreate == TaskCreateOver \/ Deliver

SpecCreate == InitCreate /\ [][NextCreate]_vars

\* ------------------------------------------- task_assign and task_list

\* the working store after scout has run init
Staffed == createIdentityBead(Working, "scout", {}).recs

\* params.text of task_assign: agents with an identity bead, in two
\* spellings; an agent id no bead carries; the identity label itself
AssignTargets == {None, "forge", " forge ", "scout", "main", "agent-identity"}

TaskAssignTo == TaskAssignOver(Callers, MaxAssignSteps, AssignTargets)

\* params.text of task_list
ListTexts ==
    {None, "ready", " Ready ", "backlog", "all", "unassigned", "label:urgent",
     "label:urgent,forge", "mine"}

TaskListOver(callers, limit) ==
    /\ call.tool = "none"
    /\ steps < limit
    /\ \E c \in callers, text \in ListTexts, first \in agentIds :
         IF NoSession(c)
         THEN Apply("agent_self", "task_list", c, NoId, text, {}, NoId,
                    Say(Out(recs, daily, "error", {}), "no-session", NoId, None))
         ELSE \E F \in FailChoices(FindPoints(Labels(c), "q", "s")
                                   \cup {<<"r", 1>>}) :
                \E bead \in FindIdentityBead(recs, Labels(c), F, "q", "s") :
                  Apply("agent_self", "task_list", c, NoId, text, F, bead,
                        TaskList(recs, daily, c, bead, NoId, text, F, first))

TaskListCmd == TaskListOver(Callers, MaxAssignSteps)

InitAssign ==
    /\ recs \in {Working, Staffed}
    /\ daily = [a \in AgentIds |-> <<>>]
    /\ call = Idle
    /\ steps = 0
    /\ files = NoFiles
    /\ procs = NoProcs

NextAssign == TaskAssignTo \/ TaskListCmd \/ Deliver

SpecAssign == InitAssign /\ [][NextAssign]_vars

\* ---------------------------------------------------------- topic_create

\* the contexts of main and forge, main's session without an agentId, and a
\* session of scout, who has no identity bead, without an agentId
TopicCallers ==
    CoordCallers
    \cup {[sessionKey |-> <<"agent", "main", "main">>, agentId |-> None]}

TopicCreateOver ==
    AgentSelfBy(TopicCallers, MaxTopicSteps, "topic_create", TopicCreate,
                {NoId}, Texts, {<<"w", 1>>})

InitTopic ==
    /\ recs \in {<<>>, Seeded, Working}
    /\ daily = [a \in AgentIds |-> <<>>]
    /\ call = Idle
    /\ steps = 0
    /\ files = NoFiles
    /\ procs = NoProcs

NextTopic == TopicCreateOver \/ Deliver

SpecTopic == InitTopic /\ [][NextTopic]_vars

\* ------------------------------------- writes followed by a search index

MemoryWriteCmd ==
    AgentSelfBy(Callers, MaxWriteSteps, "memory_write", MemoryWrite, {NoId},
                Texts, {<<"x", 1>>})

SoulWriteCmd ==
    AgentSelfBy(Callers, MaxWriteSteps, "soul_write", SoulWrite, {NoId},
                Texts, {})

SystemMemoryWriteBy ==
    AgentSelfBy(Callers, MaxWriteSteps, "system_memory_write",
                SystemMemoryWrite, {NoId}, Texts, {<<"x", 1>>})

TopicCloseBy ==
    AgentSelfBy(Callers, MaxWriteSteps, "topic_close", TopicClose, Ids, {None},
                {<<"r", 1>>, <<"x", 1>>, <<"w", 1>>})

TaskCloseBy ==
    AgentSelfBy(Callers, MaxWriteSteps, "task_close", TaskClose, Ids, {None},
                {<<"r", 1>>, <<"x", 1>>, <<"w", 1>>})

NextWrite ==
    \/ MemoryWriteCmd \/ SoulWriteCmd \/ SystemMemoryWriteBy
    \/ TopicCloseBy \/ TaskCloseBy
    \/ Deliver

SpecWrite == InitCoord /\ [][NextWrite]_vars

\* ------------------------------------------------- init, side by side

\* const beadId = findIdentityBead(labels), before the switch
RaceResolve(p) ==
    /\ procs[p].pc = "idle"
    /\ \E c \in Callers :
         \E F \in FailChoices(FindPoints(Labels(c), "q", "s")) :
           \E bead \in FindIdentityBead(recs, Labels(c), F, "q", "s") :
             procs' = [procs EXCEPT ![p] = [pc |-> "resolved", caller |-> c,
                                            bead |-> bead, failed |-> F,
                                            res |-> "none", msg |-> NoMsg,
                                            cmd |-> "init", id |-> NoId,
                                            text |-> None,
                                            seen |-> <<>>]]
    /\ UNCHANGED <<recs, daily, call, steps, files>>

\* variant: init looks the bead up once more before it creates
BeadAtInit_LookedUpAgain(rs, c, bead) ==
    IF bead # NoId THEN bead
    ELSE CHOOSE b \in FindIdentityBead(rs, Labels(c), {}, "q", "s") : TRUE

\* the beadId the init case tests: the one resolved before the switch
BeadAtInit(rs, c, bead) == bead

\* case "init", run with the bead resolved earlier
RaceCreate(p) ==
    /\ procs[p].pc = "resolved"
    /\ \E F \in FailChoices({<<"w", 1>>, <<"w", 2>>}) :
         LET c == procs[p].caller
             out == SelfInit(recs, daily, c, BeadAtInit(recs, c, procs[p].bead),
                             NoId, None, F)
         IN /\ recs' = out.recs
            /\ procs' = [procs EXCEPT ![p].pc = "done",
                                      ![p].failed = @ \cup F,
                                      ![p].res = out.res,
                                      ![p].msg = out.msg]
    /\ UNCHANGED <<daily, call, steps, files>>

InitRace ==
    /\ recs \in {<<>>, Seeded}
    /\ daily = [a \in AgentIds |-> <<>>]
    /\ call = Idle
    /\ steps = 0
    /\ files = NoFiles
    /\ procs = NoProcs

NextRace == \E p \in Procs : RaceResolve(p) \/ RaceCreate(p)

SpecRace == InitRace /\ [][NextRace]_vars

\* ------------------------------------- ownership check and write, apart

\* the commands that check ownership and then write
OwnedCommands == {"task_comment", "task_close", "topic_comment", "topic_close"}

\* the part of the case up to the end of its try block: TRUE when the
\* checks pass and the case goes on to its store write
ChecksPass(rs, c, bead, cmd, id, text, F) ==
    /\ id # NoId
    /\ cmd \in {"task_comment", "topic_comment"} => text # None
    /\ cmd # "topic_comment" => bead # NoId
    /\ <<"r", 1>> \notin F /\ Exists(rs, id)
    /\ IF cmd \in {"task_comment", "task_close"} THEN TaskOwned(rs, id, bead)
       ELSE TopicOwned(rs, id, c)
    /\ cmd \in {"task_close", "topic_close"} => <<"x", 1>> \notin F

\* the closure note topic_close and task_close append inside the try block
NotedBy(rs, dl, c, bead, cmd, id, text, F) ==
    IF /\ cmd \in {"task_close", "topic_close"}
       /\ ChecksPass(rs, c, bead, cmd, id, text, F \ {<<"x", 1>>})
    THEN appendToDaily(dl, AgentId(c),
                       [k |-> IF cmd = "task_close" THEN "task" ELSE "topic",
                        id |-> id])
    ELSE dl

\* params.id: absent, the topic or the task of the staffed store
OwnedIds == {NoId, 3, 4}

\* an invocation resolves its bead, reads the record and checks ownership
OwnCheck(p) ==
    /\ procs[p].pc = "idle"
    /\ \E c \in Callers, cmd \in OwnedCommands, id \in OwnedIds, text \in Texts :
         \E F \in FailChoices({<<"r", 1>>, <<"x", 1>>}) :
           \E bead \in FindIdentityBead(recs, Labels(c), F, "q", "s") :
             /\ daily' = NotedBy(recs, daily, c, bead, cmd, id, text, F)
             /\ procs' = [procs EXCEPT ![p] =
                   [pc |-> IF ChecksPass(recs, c, bead, cmd, id, text, F)
                           THEN "checked" ELSE "done",
                    caller |-> c, bead |-> bead, failed |-> F,
                    res |-> IF ChecksPass(recs, c, bead, cmd, id, text, F)
                            THEN "none" ELSE "error",
                    msg |-> NoMsg, cmd |-> cmd, id |-> id, text |-> text,
                    seen |-> <<>>]]
    /\ UNCHANGED <<recs, call, steps, files>>

\* the store write after the try block: bd comments add, or bd close
OwnWrite(p) ==
    /\ procs[p].pc = "checked"
    /\ \E F \in FailChoices({<<"w", 1>>}) :
         /\ recs' = IF <<"w", 1>> \in F THEN recs
                    ELSE IF procs[p].cmd \in {"task_comment", "topic_comment"}
                    THEN StoreCommentAdd(recs, procs[p].id, procs[p].text)
                    ELSE StoreClose(recs, procs[p].id)
         /\ procs' = [procs EXCEPT ![p].pc = "done",
                                   ![p].failed = @ \cup F,
                                   ![p].res = IF <<"w", 1>> \in F THEN "throw"
                                              ELSE "ok"]
    /\ UNCHANGED <<daily, call, steps, files>>

\* another invocation runs task_assign from its first line to its last
OwnAssign(p) ==
    /\ procs[p].pc = "idle"
    /\ \E c \in Callers, id \in OwnedIds, text \in {"forge", "scout"} :
         \E F \in FailChoices({<<"r", 1>>, <<"w", 1>>, <<"w", 2>>}) :
           \E target \in FindIdentityBead(recs, <<Trim(text)>>, F, "t", "u") :
             LET out == TaskAssign(recs, daily, c, NoId, id, text, F, target)
             IN /\ recs' = out.recs
                /\ procs' = [procs EXCEPT ![p] =
                      [pc |-> "done", caller |-> c, bead |-> NoId, failed |-> F,
                       res |-> out.res, msg |-> NoMsg, cmd |-> "task_assign",
                       id |-> id, text |-> text, seen |-> <<>>]]
    /\ UNCHANGED <<daily, call, steps, files>>

InitOwn ==
    /\ recs = Staffed
    /\ daily = [a \in AgentIds |-> <<>>]
    /\ call = Idle
    /\ steps = 0
    /\ files = NoFiles
    /\ procs = NoProcs

NextOwn == \E p \in Procs : OwnCheck(p) \/ OwnWrite(p) \/ OwnAssign(p)

SpecOwn == InitOwn /\ [][NextOwn]_vars

\* ------------------------------------ task_assign and the owner's sessions

\* the main sessions of main and forge, and a discord channel session of
\* main
AgreeCallers ==
    Callers \cup
    { [sessionKey |-> <<"agent", "main", "discord", "channel",
                        "1467935902931222589">>, agentId |-> "main"] }

AgreeInit ==
    AgentSelfBy(AgreeCallers, MaxAgreeSteps, "init", SelfInit, {NoId}, {None},
                {<<"w", 1>>, <<"w", 2>>})

\* params.text of task_assign: the agents calling
AgreeTargets == {"forge", "main"}

AgreeAssign == TaskAssignOver(AgreeCallers, MaxAgreeSteps, AgreeTargets)

AgreeShow ==
    AgentSelfBy(AgreeCallers, MaxAgreeSteps, "task_show", TaskShow, Ids, {None},
                {<<"r", 1>>, <<"r", 2>>})

NextAgree == AgreeInit \/ AgreeAssign \/ AgreeShow \/ Deliver

SpecAgree == InitAssign /\ [][NextAgree]_vars

\* ------------------------------------------ a session resolved repeatedly

\* the main sessions of main and forge, and a discord channel session of
\* forge
StableCallers ==
    Callers \cup
    { [sessionKey |-> <<"agent", "forge", "discord", "channel",
                        "1467935902931222589">>, agentId |-> "forge"] }

\* const beadId = findIdentityBead(labels) of one invocation
StableResolve(p) ==
    /\ procs[p].pc = "idle"
    /\ \E c \in StableCallers :
         \E F \in FailChoices(FindPoints(Labels(c), "q", "s")) :
           \E bead \in FindIdentityBead(recs, Labels(c), F, "q", "s") :
             procs' = [procs EXCEPT ![p] = [pc |-> "resolved", caller |-> c,
                                            bead |-> bead, failed |-> F,
                                            res |-> "none", msg |-> NoMsg,
                                            cmd |-> "whoami", id |-> NoId,
                                            text |-> None,
                                            seen |-> <<>>]]
    /\ UNCHANGED <<recs, daily, call, steps, files>>

\* params.text of task_create: hashtags naming a channel and the identity
\* label
StableTexts ==
    { <<Tok("Fix"), Tok("bug"), Tag("urgent")>>,
      <<Tok("me"), Tag("agent-identity")>>,
      <<Tok("me"), Tag("agent-identity"), Tag("1467935902931222589")>> }

StableCreate ==
    AgentSelfBy(Callers, MaxStableSteps, "task_create", TaskCreate, {NoId},
                StableTexts, {<<"w", 1>>})

NextStable ==
    \/ \E p \in Procs : StableResolve(p)
    \/ StableCreate \/ Deliver

SpecStable == InitCoord /\ [][NextStable]_vars

\* --------------------------- bd_project as the bd_identity version has it

\* isIdentityBead of the version registering bd_identity: "true" or
\* "false"; the catch block returns false when `bd label list` fails
isIdentityBead2(rs, beadId, failed) ==
    IF failed \/ ~Exists(rs, beadId) THEN "false"
    ELSE IF \E l \in rs[beadId].labels : Includes(l, IDENTITY_LABEL) THEN "true"
    ELSE "false"

\* the guard before the switch of that version: "pass" or "refuse"
ProjectGuard2(rs, command, id, F) ==
    IF command \in writeCommands /\ id # NoId
    THEN IF isIdentityBead2(rs, id, <<"r", 1>> \in F) = "true"
         THEN "refuse" ELSE "pass"
    ELSE "pass"

ProjectClose2(rs, dl, id, text, F) ==
    IF id = NoId THEN Out(rs, dl, "error", {})
    ELSE IF isIdentityBead2(rs, id, <<"r", 2>> \in F) = "true"
         THEN Out(rs, dl, "error", {})
    ELSE IF <<"w", 1>> \in F THEN Out(rs, dl, "throw", {})
    ELSE Out(StoreClose(rs, id), dl, "ok", {})

\* bd_project execute of that version
Project2(cmd, Handler(_, _, _, _, _), ids, texts, points) ==
    /\ call.tool = "none"
    /\ steps < MaxGuardSteps
    /\ \E c \in Callers, id \in ids, text \in texts :
         \E F \in FailChoices(points \cup {<<"r", 1>>}) :
           LET g == ProjectGuard2(recs, cmd, id, F)
           IN Apply("bd_project", cmd, c, id, text, F, NoId,
                    IF g = "refuse" THEN Out(recs, daily, "error", {})
                    ELSE Handler(recs, daily, id, text, F))

\* params.id: absent, or a record of the store
GuardIds == 0..Len(recs)

PComment2 == Project2("comment", ProjectComment, GuardIds, Texts, {<<"w", 1>>})

PEdit2 == Project2("edit", ProjectEdit, GuardIds, Texts, {<<"w", 1>>})

PClose2 == Project2("close", ProjectClose2, GuardIds, {None}, {<<"r", 2>>, <<"w", 1>>})

PLabel2 == Project2("label", ProjectLabel, GuardIds, LabelTexts, {<<"w", 1>>})

NextGuard == PComment2 \/ PEdit2 \/ PClose2 \/ PLabel2 \/ Deliver

SpecGuard == InitCoord /\ [][NextGuard]_vars

\* ---------------------------------- task_promote's read and writes, apart

\* the try block of task_promote up to its first store write: "error" (an
\* errorResult), "labels" (straight to the label transition) or "describe"
\* (the description is updated first)
PromoteChecks(rs, c, id, text, F) ==
    IF id = NoId THEN "error"
    ELSE IF AgentId(c) # "main" THEN "error"
    ELSE IF <<"r", 1>> \in F \/ ~Exists(rs, id) THEN "error"
    ELSE IF "task" \notin LabelsOf(rs, id) THEN "error"
    ELSE IF "backlog" \notin LabelsOf(rs, id) THEN "error"
    ELSE IF "ready" \in LabelsOf(rs, id) THEN "error"
    ELSE IF "trivial" \in LabelsOf(rs, id) THEN "labels"
    ELSE IF ~(DescIncludesSpec(rs[id].description)
              \/ TitleIncludesSpec(rs[id].title)) /\ text = None
         THEN "error"
    ELSE IF text = None THEN "labels"
    ELSE "describe"

\* params.id: absent, the topic or the task of the working store
PromoteIds == {NoId, 3, 4}

\* bd show id --json and the checks on what it returned; beadData stays
\* with the invocation
PromoteRead(p) ==
    /\ procs[p].pc = "idle"
    /\ \E c \in Callers, id \in PromoteIds, text \in PromoteTexts :
         \E F \in FailChoices({<<"r", 1>>}) :
           LET v == PromoteChecks(recs, c, id, text, F)
           IN procs' = [procs EXCEPT ![p] =
                 [pc |-> CASE v = "error" -> "done"
                           [] v = "labels" -> "described"
                           [] OTHER -> "read",
                  caller |-> c, bead |-> NoId, failed |-> F,
                  res |-> IF v = "error" THEN "error" ELSE "none",
                  msg |-> NoMsg, cmd |-> "task_promote", id |-> id,
                  text |-> text,
                  seen |-> IF v = "error" THEN <<>> ELSE recs[id].description]]
    /\ UNCHANGED <<recs, daily, call, steps, files>>

\* newDesc, built from the description read: currentDesc, then "Spec: text"
NewDesc(currentDesc, text) == Append(currentDesc, Piece("spec", text))

\* bd update id --description newDesc
PromoteDescription(rs, id, seen, text) ==
    StoreUpdateDescription(rs, id, NewDesc(seen, text))

PromoteDescribe(p) ==
    /\ procs[p].pc = "read"
    /\ \E F \in FailChoices({<<"w", 1>>}) :
         /\ recs' = IF <<"w", 1>> \in F THEN recs
                    ELSE PromoteDescription(recs, procs[p].id, procs[p].seen,
                                            procs[p].text)
         /\ procs' = [procs EXCEPT ![p].pc = IF <<"w", 1>> \in F THEN "done"
                                             ELSE "described",
                                   ![p].failed = @ \cup F,
                                   ![p].res = IF <<"w", 1>> \in F THEN "error"
                                              ELSE "none"]
    /\ UNCHANGED <<daily, call, steps, files>>

\* bd label remove id backlog, bd label add id ready
PromoteRelabel(p) ==
    /\ procs[p].pc = "described"
    /\ \E F \in FailChoices({<<"w", 2>>, <<"w", 3>>}) :
         LET done == PromoteLabels(recs, procs[p].id, F)
         IN /\ recs' = done.recs
            /\ procs' = [procs EXCEPT ![p].pc = "done",
                                      ![p].failed = @ \cup F,
                                      ![p].res = done.res]
    /\ UNCHANGED <<daily, call, steps, files>>

\* another invocation runs bd_project edit from its first line to its last
PromoteEdit(p) ==
    /\ procs[p].pc = "idle"
    /\ \E c \in Callers, id \in PromoteIds \ {NoId}, text \in Texts :
         \E F \in FailChoices({<<"r", 1>>, <<"w", 1>>}) :
           LET g == ProjectGuard(recs, "edit", id, F)
               out == IF g = "throw" THEN Out(recs, daily, "throw", {})
                      ELSE IF g = "refuse" THEN Out(recs, daily, "error", {})
                      ELSE ProjectEdit(recs, daily, id, text, F)
           IN /\ recs' = out.recs
              /\ procs' = [procs EXCEPT ![p] =
                    [pc |-> "done", caller |-> c, bead |-> NoId, failed |-> F,
                     res |-> out.res, msg |-> NoMsg, cmd |-> "edit",
                     id |-> id, text |-> text, seen |-> <<>>]]
    /\ UNCHANGED <<daily, call, steps, files>>

InitPromote ==
    /\ recs = Working
    /\ daily = [a \in AgentIds |-> <<>>]
    /\ call = Idle
    /\ steps = 0
    /\ files = NoFiles
    /\ procs = NoProcs

NextPromote ==
    \E p \in Procs :
        PromoteRead(p) \/ PromoteDescribe(p) \/ PromoteRelabel(p) \/ PromoteEdit(p)

SpecPromote == InitPromote /\ [][NextPromote]_vars

\* ------------------------------------------------------------------ claims

\* the records carrying the label agent-identity
IdentityBeads(rs) == { i \in 1..Len(rs) : IDENTITY_LABEL \in rs[i].labels }

\* record i is as it was; records are never deleted
SameRecord(i) == i \in 1..Len(recs') /\ recs'[i] = recs[i]

Untouched == recs' = recs /\ daily' = daily /\ files' = files

\* the closure notes appended for record i, over all daily files
ClosureNotes(i) ==
    UNION { { <<a, n>> : n \in { m \in 1..Len(daily[a]) : daily[a][m].id = i } } :
            a \in AgentIds }

\* C1: a bd_project command, whatever its id and text, leaves the set of
\* records carrying agent-identity as it was: no record acquires the label
\* and the record `create` makes does not carry it.
C1_ProjectKeepsIdentitySet ==
    [][call'.tool = "bd_project" => IdentityBeads(recs') = IdentityBeads(recs)]_vars

\* C1 witness: while identity beads exist, bd_project label asked to put
\* " agent-identity " on an ordinary record and was refused.
C1_Witness ==
    /\ call.tool = "bd_project" /\ call.cmd = "label"
    /\ call.text = " agent-identity " /\ call.res = "error"
    /\ Exists(recs, call.id)
    /\ call.id \notin IdentityBeads(recs)
    /\ IdentityBeads(recs) # {}

\* C2 (as claimed): every record carrying agent-identity was created by an
\* agent_self init call.
C2_OnlyInitMakesIdentity ==
    \A i \in IdentityBeads(recs) : recs[i].by = "init"

\* C3: bd_project comment, edit, close and label on a record carrying
\* agent-identity never succeed and leave the store as it was; the result is
\* the errorResult of the guard whenever the guard's label lookup worked
\* (when the lookup itself fails the call ends with the lookup's exception).
C3_IdentityWriteRefused ==
    [][(/\ call'.tool = "bd_project"
        /\ call'.cmd \in writeCommands
        /\ call'.id \in IdentityBeads(recs))
       => /\ Untouched
          /\ call'.res # "ok"
          /\ (<<"r", 1>> \notin call'.failed => call'.res = "error")]_vars

\* C3 witness: bd_project close on an identity bead, by an agent other than
\* the one the bead was made for, was refused.
C3_Witness ==
    /\ call.tool = "bd_project" /\ call.cmd = "close" /\ call.res = "error"
    /\ call.failed = {}
    /\ call.id \in IdentityBeads(recs)
    /\ AgentId(call.caller) \notin recs[call.id].labels
    /\ recs[call.id].status = "open"

\* the identity beads the context c resolves to when every query works
Resolves(rs, c) == FindIdentityBead(rs, Labels(c), {}, "q", "s") \ {NoId}

\* C4 (as claimed): no command returns to its caller the content of an
\* identity bead other than the caller's own.
C4_NoForeignIdentityRead ==
    \A i \in call.reads :
        i \in IdentityBeads(recs) => i \in Resolves(recs, call.caller)

\* the identity beads carrying a label derived for c, exactly or as the
\* substring of a long-digit label
MatchesLabels(rs, c) ==
    { b \in IdentityBeads(rs) :
        \E i \in 1..Len(Labels(c)) :
            \/ Labels(c)[i] \in rs[b].labels
            \/ /\ IsLongDigits(Labels(c)[i])
               /\ \E x \in rs[b].labels : Includes(x, Labels(c)[i]) }

\* C5: agent_self show, comment, edit and comments touch and show only the
\* identity bead resolved from the context's labels, whatever id and text
\* the caller passes; with no bead resolved they return an error and write
\* nothing.
C5_SelfTargetsOwnBead ==
    [][(/\ call'.tool = "agent_self"
        /\ call'.cmd \in {"show", "comment", "edit", "comments"})
       => /\ Len(recs') = Len(recs)
          /\ daily' = daily
          /\ \A i \in 1..Len(recs) : i # call'.bead => SameRecord(i)
          /\ call'.reads \subseteq {call'.bead}
          /\ call'.bead # NoId => call'.bead \in MatchesLabels(recs, call'.caller)
          /\ call'.bead = NoId => call'.res = "error" /\ Untouched]_vars

\* C5 witness: edit was called with the id of another agent's identity bead
\* and changed the caller's own bead.
C5_Witness ==
    /\ call.tool = "agent_self" /\ call.cmd = "edit" /\ call.res = "ok"
    /\ call.id \in IdentityBeads(recs)
    /\ call.id # call.bead
    /\ recs[call.bead].description = <<Piece("text", "note")>>
    /\ recs[call.id].description # <<Piece("text", "note")>>

\* C6: task_comment, task_show and task_close on a record whose parent is
\* not the identity bead resolved for the caller in that call (an unassigned
\* task, no such record, a caller without identity bead) return an error
\* and change neither the store nor any daily file.
C6_TaskOwnerOnly ==
    [][(/\ call'.tool = "agent_self"
        /\ call'.cmd \in {"task_comment", "task_show", "task_close"}
        /\ \/ call'.bead = NoId
           \/ ~Exists(recs, call'.id)
           \/ recs[call'.id].parent # call'.bead)
       => /\ call'.res = "error"
          /\ call'.reads = {}
          /\ Untouched]_vars

\* C6 witness: an agent with an identity bead asked to close an open task
\* whose parent is another agent's identity bead, and was refused.
C6_Witness ==
    /\ call.tool = "agent_self" /\ call.cmd = "task_close"
    /\ call.res = "error" /\ call.failed = {}
    /\ call.bead # NoId
    /\ Exists(recs, call.id)
    /\ "task" \in recs[call.id].labels
    /\ recs[call.id].parent \in IdentityBeads(recs) \ {call.bead}
    /\ recs[call.id].status = "open"

\* C7: topic_comment, topic_show and topic_close on a record whose labels
\* do not contain both topic and the caller's agentId return an error and
\* change neither the store nor any daily file.
C7_TopicOwnerOnly ==
    [][(/\ call'.tool = "agent_self"
        /\ call'.cmd \in {"topic_comment", "topic_show", "topic_close"}
        /\ \/ ~Exists(recs, call'.id)
           \/ ~({"topic", AgentId(call'.caller)} \subseteq recs[call'.id].labels))
       => /\ call'.res = "error"
          /\ call'.reads = {}
          /\ Untouched]_vars

\* C7 witness: an agent with an identity bead asked to close another
\* agent's open topic, and was refused.
C7_Witness ==
    /\ call.tool = "agent_self" /\ call.cmd = "topic_close"
    /\ call.res = "error" /\ call.failed = {}
    /\ call.bead # NoId
    /\ Exists(recs, call.id)
    /\ "topic" \in recs[call.id].labels
    /\ AgentId(call.caller) \notin recs[call.id].labels
    /\ recs[call.id].status = "open"

\* C8 (as claimed): no record carrying task carries both backlog and ready.
C8_NeverBacklogAndReady ==
    \A i \in 1..Len(recs) :
        "task" \in recs[i].labels => ~({"backlog", "ready"} \subseteq recs[i].labels)

\* C9 (as claimed): in every state another invocation can observe, every
\* open record carrying task carries exactly one of backlog and ready.
C9_ExactlyOneOfBacklogReady ==
    \A i \in 1..Len(recs) :
        ("task" \in recs[i].labels /\ recs[i].status = "open")
        => Cardinality(recs[i].labels \cap {"backlog", "ready"}) = 1

\* C10 (as claimed): a closed task or topic has exactly one closure note,
\* and no record ever has a second one.
C10_OneClosureNotePerClose ==
    \A i \in 1..Len(recs) :
        /\ Cardinality(ClosureNotes(i)) <= 1
        /\ (recs[i].status = "closed" /\ recs[i].labels \cap {"task", "topic"} # {})
           => Cardinality(ClosureNotes(i)) = 1

\* C11 (as claimed): when init is called again by the same context right
\* after its init returned, the first call returned an id and the second
\* creates no record and reports "already exists" with that same id.
C11_InitIdempotent ==
    [][(/\ call.cmd = "init" /\ call'.cmd = "init"
        /\ call'.tool = call.tool /\ call'.caller = call.caller)
       => /\ call.msg.id # NoId
          /\ Len(recs') = Len(recs)
          /\ call'.msg = Msg("exists", call.msg.id, None)]_vars

\* C12: two init invocations whose contexts derive the same labels and
\* which both resolved no bead, every store call working (so each ran
\* findIdentityBead before the other created), both create a record: two
\* distinct identity beads with the same creation label are left.
C12_RacingInitsDuplicate ==
    \A p \in Procs, q \in Procs :
        (/\ p # q
         /\ procs[p].pc = "done" /\ procs[q].pc = "done"
         /\ Labels(procs[p].caller) = Labels(procs[q].caller)
         /\ procs[p].bead = NoId /\ procs[q].bead = NoId
         /\ procs[p].failed = {} /\ procs[q].failed = {})
        => /\ procs[p].msg.kind = "created" /\ procs[q].msg.kind = "created"
           /\ procs[p].msg.id # procs[q].msg.id
           /\ {procs[p].msg.id, procs[q].msg.id} \subseteq IdentityBeads(recs)
           /\ procs[p].msg.note = procs[q].msg.note
           /\ procs[p].msg.note \in recs[procs[p].msg.id].labels
           /\ procs[p].msg.note \in recs[procs[q].msg.id].labels

\* C12 witness: from the empty store, two init invocations of the same
\* context, no store call failing, have left two identity beads.
C12_Witness ==
    /\ procs[1].pc = "done" /\ procs[2].pc = "done"
    /\ procs[1].caller = procs[2].caller
    /\ procs[1].failed = {} /\ procs[2].failed = {}
    /\ Len(recs) = 2
    /\ IdentityBeads(recs) = {1, 2}
    /\ recs[1].labels = recs[2].labels

\* the store calls of task_promote's case
PromoteCalls == {<<"r", 1>>, <<"w", 1>>, <<"w", 2>>, <<"w", 3>>}

\* C13: task_promote on a task without the trivial label and without "spec"
\* in title or description is rejected when called without text, store and
\* daily files unchanged; called with text by main on such a backlog task,
\* every store call working, it succeeds, the task ends with ready and
\* without backlog, and its description contains the text.
C13_PromoteNeedsSpec ==
    [][(/\ call'.tool = "agent_self" /\ call'.cmd = "task_promote"
        /\ Exists(recs, call'.id)
        /\ "task" \in recs[call'.id].labels
        /\ "trivial" \notin recs[call'.id].labels
        /\ ~DescIncludesSpec(recs[call'.id].description)
        /\ ~TitleIncludesSpec(recs[call'.id].title))
       => /\ call'.text = None => (call'.res = "error" /\ Untouched)
          /\ (/\ call'.text # None
              /\ AgentId(call'.caller) = "main"
              /\ "backlog" \in recs[call'.id].labels
              /\ "ready" \notin recs[call'.id].labels
              /\ call'.failed \cap PromoteCalls = {})
             => /\ call'.res = "ok"
                /\ "ready" \in recs'[call'.id].labels
                /\ "backlog" \notin recs'[call'.id].labels
                /\ \E i \in 1..Len(recs'[call'.id].description) :
                      recs'[call'.id].description[i].v = call'.text]_vars

\* C13 witness: main promoted, with the text "auth", a backlog task that had
\* neither the trivial label nor a spec reference.
C13_Witness ==
    /\ call.tool = "agent_self" /\ call.cmd = "task_promote"
    /\ call.res = "ok" /\ call.text = "auth"
    /\ "trivial" \notin recs[call.id].labels
    /\ ~TitleIncludesSpec(recs[call.id].title)
    /\ recs[call.id].description = <<Piece("spec", "auth")>>
    /\ "ready" \in recs[call.id].labels
    /\ "backlog" \notin recs[call.id].labels

\* the record can be promoted: it carries task and backlog and not ready
Promotable(rs, id) ==
    /\ Exists(rs, id)
    /\ {"task", "backlog"} \subseteq rs[id].labels
    /\ "ready" \notin rs[id].labels

\* C14: task_promote changes the store only when the record carries task
\* and backlog and not ready, and then only that record; in every other
\* case it returns an error and changes nothing; a successful promote
\* removes backlog and adds ready and leaves the other labels, the parent,
\* the title, the status and the comments as they were.
C14_PromoteOnlyFromBacklog ==
    [][(call'.tool = "agent_self" /\ call'.cmd = "task_promote")
       => /\ daily' = daily
          /\ Len(recs') = Len(recs)
          /\ \A i \in 1..Len(recs) : i # call'.id => SameRecord(i)
          /\ ~Promotable(recs, call'.id) => (call'.res = "error" /\ Untouched)
          /\ call'.res = "ok"
             => /\ Promotable(recs, call'.id)
                /\ recs'[call'.id].labels =
                       (recs[call'.id].labels \ {"backlog"}) \cup {"ready"}
                /\ recs'[call'.id].parent = recs[call'.id].parent
                /\ recs'[call'.id].title = recs[call'.id].title
                /\ recs'[call'.id].status = recs[call'.id].status
                /\ recs'[call'.id].comments = recs[call'.id].comments]_vars

\* C14 witness: an assigned backlog task with further labels was promoted
\* and kept them and its parent.
C14_Witness ==
    /\ call.tool = "agent_self" /\ call.cmd = "task_promote" /\ call.res = "ok"
    /\ recs[call.id].labels = {"task", "urgent", "forge", "ready"}
    /\ recs[call.id].parent \in IdentityBeads(recs)

\* task_promote, system_memory_write, agent_ltm_read and specs write
CoordinatorOnly(c) ==
    \/ c.tool = "agent_self"
       /\ c.cmd \in {"task_promote", "system_memory_write", "agent_ltm_read"}
    \/ c.tool = "specs" /\ c.cmd = "write"

\* C15 (as claimed): a coordinator-only command called from a context whose
\* gateway-supplied agentId is not main returns an error and changes no
\* record and no file.
C15_CoordinatorOnlyForMain ==
    [][(CoordinatorOnly(call') /\ call'.caller.agentId # "main")
       => (call'.res = "error" /\ Untouched)]_vars

\* a closed record carrying task or topic
ClosedWork(rs, i) ==
    rs[i].status = "closed" /\ rs[i].labels \cap {"task", "topic"} # {}

\* C16 (as claimed): a closed task or topic never changes again, and a
\* further task_close, topic_close, task_promote, task_assign or
\* task_comment on it changes no record and no daily memory file.
C16_ClosedIsTerminal ==
    [][/\ \A i \in 1..Len(recs) : ClosedWork(recs, i) => recs'[i] = recs[i]
       /\ (/\ call'.cmd \in {"task_close", "topic_close", "task_promote",
                             "task_assign", "task_comment"}
           /\ call'.id \in 1..Len(recs)
           /\ ClosedWork(recs, call'.id))
          => Untouched]_vars

\* C17: an agent_self (or bd_identity) command called from a context with no
\* sessionKey returns the error "No session context. Cannot resolve
\* identity.", reads and changes no record, writes no file, and reaches no
\* store call that could fail.
C17_NoSessionNoEffect ==
    [][(/\ call'.tool \in {"agent_self", "bd_identity"}
        /\ call'.caller.sessionKey = NoKey)
       => (/\ call'.res = "error"
           /\ call'.msg = Msg("no-session", NoId, None)
           /\ call'.reads = {}
           /\ call'.failed = {}
           /\ Untouched)]_vars

\* a task_create without sessionKey, with main's agentId, was answered with
\* the error in a store that holds main's identity bead
C17_Witness ==
    /\ call.tool = "agent_self" /\ call.cmd = "task_create"
    /\ call.caller = [sessionKey |-> NoKey, agentId |-> "main"]
    /\ call.msg.kind = "no-session"
    /\ recs = Working

\* the agentId the tool's factory hands to sessionKeyToLabels
Supplied(tool, c) == IF tool = "agent_self" THEN AgentId(c) ELSE c.agentId

\* C18: whenever the second and third segments of the session key are both
\* main, the derived list is not empty and its first element is
\* main-session, with or without an agentId and whatever segments follow.
C18_MainSessionFirst ==
    (/\ call.cmd = "whoami"
     /\ Len(call.caller.sessionKey) >= 3
     /\ call.caller.sessionKey[2] = "main"
     /\ call.caller.sessionKey[3] = "main")
    => (Len(call.labels) >= 1 /\ call.labels[1] = "main-session")

\* bd_identity's whoami for a main-session key with two further segments and
\* no agentId: main-session comes first, a snowflake after it
C18_Witness ==
    /\ call.tool = "bd_identity" /\ call.cmd = "whoami"
    /\ Len(call.caller.sessionKey) >= 3
    /\ call.caller.sessionKey[2] = "main" /\ call.caller.sessionKey[3] = "main"
    /\ call.caller.agentId = None
    /\ call.labels = <<"main-session", "222222222222222">>

\* the long-digit segments that have a discord segment somewhere before them
AfterDiscord(parts) ==
    { i \in 1..Len(parts) :
        IsLongDigits(parts[i]) /\ \E d \in 1..(i - 1) : parts[d] = "discord" }

\* C19: for every session key the derived list is, in this order,
\* main-session if the second and third segments are both main, then the
\* last long-digit segment that follows a discord segment if there is one,
\* then the agentId if one was supplied; so such a segment is always in the
\* list and a supplied agentId is always its last element.
C19_LabelsExactly ==
    call.cmd = "whoami" =>
        LET parts == call.caller.sessionKey
            a == Supplied(call.tool, call.caller)
            ms == IF /\ Len(parts) >= 3
                     /\ parts[2] = "main" /\ parts[3] = "main"
                  THEN <<"main-session">> ELSE <<>>
            sf == IF AfterDiscord(parts) = {} THEN <<>>
                  ELSE <<parts[CHOOSE i \in AfterDiscord(parts) :
                                 \A j \in AfterDiscord(parts) : j <= i]>>
        IN /\ call.labels = ms \o sf \o (IF a = None THEN <<>> ELSE <<a>>)
           /\ a # None => call.labels[Len(call.labels)] = a
           /\ Len(call.labels) <= 3

\* a key with two long-digit segments after discord, the later one derived,
\* and a supplied agentId behind it
C19_Witness ==
    /\ call.cmd = "whoami"
    /\ call.caller.sessionKey =
         <<"agent", "forge", "discord", "channel", "222222222222222", "thread",
           "1467935902931222589">>
    /\ call.labels = <<"1467935902931222589", "forge">>

\* what task_create made of `text` when its hashtags are the #words at the
\* positions `at`: one record more, without parent, labelled task, the
\* hashtags, and backlog exactly when neither ready nor backlog is among
\* them; titled with the other words; the status reported as told
CreatedFrom(text, at) ==
    LET tags == { text[i].w : i \in at }
        made == recs'[Len(recs')]
    IN /\ Len(recs') = Len(recs) + 1
       /\ SubSeq(recs', 1, Len(recs)) = recs
       /\ made.parent = NoId
       /\ made.status = "open"
       /\ made.labels =
            {"task"} \cup tags
            \cup (IF tags \cap {"ready", "backlog"} = {} THEN {"backlog"} ELSE {})
       /\ made.title = SelectIdx(text, (1..Len(text)) \ at, 1)
       /\ call'.msg.note =
            (IF "ready" \in tags THEN "ready"
             ELSE IF "trivial" \in tags THEN "backlog (trivial)"
             ELSE "backlog")

ResolvedFor(rs, l) == FindIdentityBead(rs, <<l>>, {}, "t", "u") \ {NoId}

\* C21: task_assign succeeds only if an identity bead resolves for
\* [text.trim()] and the record exists and carries task; then the record's
\* parent is a bead resolved for that label and its labels include the
\* trimmed text; when the text is missing, no bead resolves, or the record
\* is missing or carries no task label, the result is an error and no
\* record changes.
C21_AssignPreconditions ==
    [][call'.cmd = "task_assign" =>
         LET id == call'.id
             text == call'.text
             pre == /\ text # None
                    /\ ResolvedFor(recs, Trim(text)) # {}
                    /\ id \in 1..Len(recs)
                    /\ "task" \in recs[id].labels
         IN /\ call'.res = "ok" =>
                 /\ pre
                 /\ recs'[id].parent \in ResolvedFor(recs, Trim(text))
                 /\ Trim(text) \in recs'[id].labels
            /\ ~pre => (call'.res = "error" /\ recs' = recs)]_vars

\* task 4 was assigned to scout: parent scout's bead, label scout
C21_Witness ==
    /\ call.cmd = "task_assign" /\ call.res = "ok"
    /\ call.text = "scout" /\ call.id = 4
    /\ recs[4].parent = 5 /\ "scout" \in recs[4].labels

\* the agent labels a task shares with its owner's identity bead
OwnerLabels(rs, id) ==
    IF rs[id].parent = NoId THEN {}
    ELSE rs[id].labels \cap rs[rs[id].parent].labels

\* C22 (as claimed): when task_assign moves a task from one identity bead
\* to another, the task no longer carries the former owner's agent label,
\* and every owner task_list shows for an assigned task is a label of the
\* bead the task's parent names.
C22_ReassignOverwrites ==
    [][/\ (/\ call'.cmd = "task_assign" /\ call'.res = "ok"
           /\ recs[call'.id].parent \notin {NoId, recs'[call'.id].parent})
          => OwnerLabels(recs, call'.id) \cap recs'[call'.id].labels = {}
       /\ call'.cmd = "task_list"
          => \A line \in call'.shown :
                (line[2] # None /\ recs[line[1]].parent # NoId)
                => line[2] \in recs[recs[line[1]].parent].labels]_vars

\* C23: a successful topic_create had an identity bead resolved for the
\* caller and adds one open record whose parent is that bead and whose
\* labels are exactly the agentId and topic; with no bead resolved the
\* result is an error; whenever it does not succeed, nothing is created.
C23_TopicCreateBound ==
    [][call'.cmd = "topic_create" =>
         /\ call'.res = "ok" =>
              /\ call'.bead \in 1..Len(recs)
              /\ IDENTITY_LABEL \in recs[call'.bead].labels
              /\ Len(recs') = Len(recs) + 1
              /\ SubSeq(recs', 1, Len(recs)) = recs
              /\ recs'[Len(recs')].parent = call'.bead
              /\ recs'[Len(recs')].labels = {AgentId(call'.caller), "topic"}
              /\ recs'[Len(recs')].status = "open"
         /\ call'.bead = NoId => call'.res = "error"
         /\ call'.res # "ok" => recs' = recs]_vars

\* forge created a topic: the last record hangs under forge's bead
C23_Witness ==
    /\ call.cmd = "topic_create" /\ call.res = "ok"
    /\ call.caller.agentId = "forge"
    /\ recs[Len(recs)].parent = 2
    /\ recs[Len(recs)].labels = {"forge", "topic"}

\* the open task records that match the mode, as the claim lists them
Matching(rs, bead, text) ==
    LET mode == ModeOf(text)
        tasks == { i \in 1..Len(rs) :
                     "task" \in rs[i].labels /\ rs[i].status = "open" }
    IN IF LabelMatch(mode) # {}
       THEN { i \in tasks : LabelMatch(mode) \subseteq rs[i].labels }
       ELSE IF mode = "ready" THEN { i \in tasks : "ready" \in rs[i].labels }
       ELSE IF mode = "backlog" THEN { i \in tasks : "backlog" \in rs[i].labels }
       ELSE IF mode = "all" THEN { i \in tasks : "backlog" \notin rs[i].labels }
       ELSE IF mode = "unassigned"
       THEN { i \in tasks : /\ rs[i].labels \cap agentIds = {}
                            /\ "backlog" \notin rs[i].labels }
       ELSE { i \in tasks : rs[i].parent = bead }

\* C24 (as claimed): task_list changes no record, and lists exactly the
\* open task records that match its mode, the default mode taken against
\* the identity bead that resolves for the caller.
C24_TaskListProjection ==
    [][call'.cmd = "task_list" =>
         /\ Untouched
         /\ \A bead \in FindIdentityBead(recs, call'.labels, {}, "q", "s") :
              call'.reads = Matching(recs, bead, call'.text)]_vars

\* C24, with every store call answered: the same property over the calls
\* in which no store call failed and an identity bead resolved.
C24_TaskListWhenAnswered ==
    [][(call'.cmd = "task_list" /\ call'.failed = {} /\ call'.bead # NoId) =>
         /\ Untouched
         /\ call'.reads = Matching(recs, call'.bead, call'.text)]_vars

\* a query of the caller's identity lookup failed
LookupFailed(c) == \E p \in c.failed : p[1] \in {"q", "s"}

\* the command answered "No identity bead found. Run 'init' first.": no bead
\* was resolved and the checks before that one passed
NoBeadAnswer(c) ==
    /\ c.bead = NoId
    /\ c.res = "error"
    /\ \/ c.cmd \in {"show", "comments", "task_list"}
       \/ c.cmd \in {"comment", "edit", "topic_create"} /\ c.text # None
       \/ c.cmd \in {"topic_close", "task_show", "task_close"} /\ c.id # NoId
       \/ c.cmd = "task_comment" /\ c.id # NoId /\ c.text # None

\* C25 (as claimed): when a query of the identity lookup failed although a
\* record of the store matches the caller's labels, the command does not
\* answer "No identity bead found" and init creates no record.
C25_LookupFailurePropagates ==
    [][(/\ call'.tool = "agent_self"
        /\ LookupFailed(call')
        /\ NoId \notin FindIdentityBead(recs, call'.labels, {}, "q", "s"))
       => (/\ ~NoBeadAnswer(call')
           /\ call'.cmd = "init" => Len(recs') = Len(recs))]_vars

\* the write of the command has succeeded: a line was appended to a daily
\* file, or the command's file holds the text
WriteDone ==
    \/ /\ call'.cmd \in {"memory_write", "topic_close", "task_close"}
       /\ \E a \in AgentIds : Len(daily'[a]) = Len(daily[a]) + 1
    \/ /\ call'.cmd = "soul_write" /\ call'.text # None
       /\ files'[SoulPath(AgentId(call'.caller))] = call'.text
    \/ /\ call'.cmd = "system_memory_write" /\ call'.text # None
       /\ AgentId(call'.caller) = "main"
       /\ files'[SystemMemoryPath] = call'.text

\* C26 (as claimed): whenever the write of memory_write, soul_write,
\* system_memory_write, topic_close or task_close has succeeded and, for
\* the closes, the close call to the store did not fail, the command
\* returns its success result and topic_close and task_close have closed
\* the record, whether the index update failed or not.
C26_IndexFailureHarmless ==
    [][(WriteDone /\ <<"w", 1>> \notin call'.failed)
       => (/\ call'.res = "ok"
           /\ call'.cmd \in {"topic_close", "task_close"}
              => recs'[call'.id].status = "closed")]_vars

\* the records carrying agent-identity and l
Carrying(l) ==
    { b \in 1..Len(recs) : {IDENTITY_LABEL, l} \subseteq recs[b].labels }

\* the records carrying agent-identity one of whose labels contains l
Containing(l) ==
    { b \in 1..Len(recs) :
        /\ IDENTITY_LABEL \in recs[b].labels
        /\ \E x \in recs[b].labels : Includes(x, l) }

\* C27: with every query of the lookup answered, the bead resolved for the
\* labels is a record carrying agent-identity and the earliest label that
\* any such record carries; when no label is carried so, it is a record
\* one of whose labels contains the earliest long-digit label contained in
\* any; and it is none when neither exists.
C27_ExactBeforeSubstring ==
    (call.cmd = "whoami" /\ ~LookupFailed(call)) =>
        LET ls == call.labels
            ex == { i \in 1..Len(ls) : Carrying(ls[i]) # {} }
            sb == { i \in 1..Len(ls) :
                      IsLongDigits(ls[i]) /\ Containing(ls[i]) # {} }
        IN IF ex # {}
           THEN call.bead \in Carrying(ls[CHOOSE i \in ex : \A j \in ex : i <= j])
           ELSE IF sb # {}
           THEN call.bead \in Containing(ls[CHOOSE i \in sb : \A j \in sb : i <= j])
           ELSE call.bead = NoId

\* labels [snowflake, forge]: forge's bead is carried exactly and resolved,
\* although the snowflake is contained in a label of another bead
C27_Witness ==
    /\ call.cmd = "whoami" /\ ~LookupFailed(call)
    /\ call.labels = <<"1467935902931222589", "forge">>
    /\ recs = Mixed
    /\ call.bead = 2
    /\ Containing("1467935902931222589") = {1}

\* C28: when init has no identity bead resolved it creates at most one
\* record, exactly one when the create call did not fail, and the record
\* created carries exactly agent-identity, session-context and the
\* creation label: the first derived label starting with discord-, else
\* the first that is not purely numeric, else the agentId, else unknown;
\* with no creation call failing, init reports that id and that label.
C28_InitCreationLabel ==
    [][(call'.cmd = "init" /\ call'.bead = NoId) =>
         LET k == Len(recs)
             ls == call'.labels
             a == Supplied(call'.tool, call'.caller)
             dd == { i \in 1..Len(ls) : ls[i] \in DiscordDashTokens }
             nn == { i \in 1..Len(ls) : ls[i] \notin DigitTokens }
             lbl == IF dd # {} THEN ls[CHOOSE i \in dd : \A j \in dd : i <= j]
                    ELSE IF nn # {} THEN ls[CHOOSE i \in nn : \A j \in nn : i <= j]
                    ELSE IF a # None THEN a
                    ELSE "unknown"
         IN /\ Len(recs') \in {k, k + 1}
            /\ SubSeq(recs', 1, k) = recs
            /\ Len(recs') = k + 1 =>
                 recs'[k + 1].labels = {IDENTITY_LABEL, lbl, "session-context"}
            /\ <<"w", 1>> \notin call'.failed => Len(recs') = k + 1
            /\ call'.failed \cap {<<"w", 1>>, <<"w", 2>>} = {} =>
                 (call'.res = "ok" /\ call'.msg = Msg("created", k + 1, lbl))]_vars

\* a discord channel session with agentId discord: the bead is labelled
\* discord, not with the channel id
C28_Witness ==
    /\ call.cmd = "init" /\ call.msg.kind = "created"
    /\ call.caller.agentId = "discord"
    /\ call.labels = <<"1467935902931222589", "discord">>
    /\ recs[Len(recs)].labels = {IDENTITY_LABEL, "discord", "session-context"}

\* the mutating commands the claim lists
Mutating(c) ==
    \/ c.tool = "agent_self"
       /\ c.cmd \in {"topic_comment", "task_comment", "topic_close",
                     "task_close", "task_assign"}
    \/ c.tool = "bd_project"
       /\ c.cmd \in {"show", "comment", "edit", "create", "close", "label"}

\* C29 (as claimed): a mutating command in which a store call failed ends
\* with an error result; no exception leaves execute.
C29_FailuresAreResults ==
    [][(Mutating(call') /\ call'.failed # {}) => call'.res # "throw"]_vars

\* C30 (as claimed): whenever the comment add or the close of an invocation
\* is applied to a record, at that instant the record's parent is the
\* caller's identity bead (task_comment, task_close), or its labels hold
\* topic and the caller's agentId (topic_comment, topic_close).
C30_OwnedAtMutation ==
    [][\A p \in Procs :
         (procs[p].pc = "checked" /\ procs'[p].pc = "done" /\ recs' # recs)
         => IF procs[p].cmd \in {"task_comment", "task_close"}
            THEN recs[procs[p].id].parent = procs[p].bead
            ELSE {"topic", AgentId(procs[p].caller)}
                 \subseteq recs[procs[p].id].labels]_vars

\* the agents whose sessions resolve to the bead a topic was created under:
\* topic_create passes the caller's bead as --parent
TopicCreators(rs, i) ==
    { AgentId(c) : c \in { d \in Callers :
          rs[i].parent \in FindIdentityBead(rs, Labels(d), {}, "q", "s") } }

\* C31 (as claimed): topic_comment, topic_show and topic_close are accepted
\* on a record made by topic_create only for the agent it was created by,
\* whatever commands ran before.
C31_TopicIsolationLasts ==
    [][(/\ call'.tool = "agent_self"
        /\ call'.cmd \in {"topic_comment", "topic_show", "topic_close"}
        /\ call'.res = "ok"
        /\ Exists(recs, call'.id)
        /\ recs[call'.id].by = "topic_create")
       => AgentId(call'.caller) \in TopicCreators(recs, call'.id)]_vars

\* C32 (as claimed): when task_assign to agent X has succeeded, every
\* session of X resolves to the record that is now the task's parent.
C32_AssignAgreesWithOwner ==
    [][(/\ call'.tool = "agent_self" /\ call'.cmd = "task_assign"
        /\ call'.res = "ok")
       => \A c \in AgreeCallers :
            AgentId(c) = Trim(call'.text)
            => FindIdentityBead(recs', Labels(c), {}, "q", "s")
               = {recs'[call'.id].parent}]_vars

\* C33 (as claimed): once a session has resolved to an identity record, a
\* later resolution for the same session, every store query of which is
\* answered, returns that record, whatever commands ran in between.
C33_ResolutionStable ==
    [][\A p, q \in Procs :
         (/\ procs[p].pc = "resolved" /\ procs[p].bead # NoId
          /\ procs[q].pc = "idle" /\ procs'[q].pc = "resolved"
          /\ procs'[q].caller = procs[p].caller
          /\ procs'[q].failed = {})
         => procs'[q].bead = procs[p].bead]_vars

\* C34 (as claimed): the record a session resolves to was made by init, and
\* sessions of different agentIds do not resolve to the same record.
C34_ResolvesToOwnInit ==
    \A p \in Procs :
        (procs[p].pc = "resolved" /\ procs[p].bead # NoId)
        => /\ recs[procs[p].bead].by = "init"
           /\ \A q \in Procs :
                (procs[q].pc = "resolved" /\ procs[q].bead = procs[p].bead)
                => AgentId(procs[q].caller) = AgentId(procs[p].caller)

\* C35 (as claimed): a command that ends in an error result or an exception
\* leaves the record store as it was.
C35_FailureLeavesStore ==
    [][(call'.tool # "none" /\ call'.res \in {"error", "throw"})
       => recs' = recs]_vars

\* C36 (as claimed): a topic_close or task_close that does not end with the
\* record closed appends no closure note to any daily file.
C36_NoteOnlyWhenClosed ==
    [][(/\ call'.tool = "agent_self"
        /\ call'.cmd \in {"topic_close", "task_close"}
        /\ call'.res # "ok")
       => daily' = daily]_vars

\* C37 (as claimed): a bd_project comment, edit, close or label whose label
\* lookup for the identity guard failed leaves the store as it was.
C37_GuardFailsClosed ==
    [][(/\ call'.tool = "bd_project"
        /\ call'.cmd \in writeCommands
        /\ call'.id # NoId
        /\ <<"r", 1>> \in call'.failed)
       => recs' = recs]_vars

\* C38 (as claimed): the description update of task_promote leaves the
\* description the record held right before the update, followed by the
\* Spec line.
C38_PromoteAppends ==
    [][\A p \in Procs :
         (procs[p].pc = "read" /\ procs'[p].pc = "described")
         => recs'[procs[p].id].description
            = Append(recs[procs[p].id].description,
                     Piece("spec", procs[p].text))]_vars

\* C39 (as claimed): task_comment, task_show and task_close are accepted
\* only on records that carry the label task.
C39_TaskCommandsOnTasksOnly ==
    [][(/\ call'.tool = "agent_self"
        /\ call'.cmd \in {"task_comment", "task_show", "task_close"}
        /\ call'.res = "ok")
       => "task" \in recs[call'.id].labels]_vars

====
